---- MODULE Spec2Model ----
(***************************************************************************)
(* OpenFSW flight core: mode manager, boot sequencer, FDIR engine,         *)
(* telecommand dispatcher, telemetry, scheduler, CCSDS codec and event     *)
(* log, modelled from flight/ (C sources).                                 *)
(*                                                                         *)
(* One module, several specifications over the same variables.  Each       *)
(* specification drives one component group and leaves the variables of    *)
(* the other groups at their initial values:                               *)
(*   SpecMode   mode manager API, one call per step, with the system tick  *)
(*   SpecConc   request/process as tasks stepping through the mode mutex   *)
(*   SpecTc     telecommand dispatcher on top of the mode manager          *)
(*   SpecSelect boot_select_mode as a function of record, strap and cause  *)
(*   SpecBoot   boot_main over a sequence of resets                        *)
(*   SpecFdir   FDIR engine on top of the mode manager                     *)
(*   SpecAck    telecommand dispatcher in front of a telemetry backlog     *)
(*   SpecReg    telecommand_register called from concurrent tasks          *)
(*   SpecTm     telemetry queue: enqueue and dequeue calls                 *)
(*   SpecHk     telemetry_periodic and the housekeeping definition table   *)
(*   SpecSched  cooperative scheduler: register_periodic and step          *)
(*   SpecSeq    ccsds_next_sequence called from concurrent tasks           *)
(*   SpecCodec  telemetry packet build, finalize and serialize             *)
(*   SpecParse  ccsds_parse_tc on bounded inputs                           *)
(*   SpecLog    event log: write, get_count and get_entry calls            *)
(*   SpecStart  boot_main, mode_manager_init, requests and process calls   *)
(*   SpecCrash  boot_main statement by statement, resets in between        *)
(***************************************************************************)
EXTENDS Integers, Sequences, FiniteSets, TLC

VARIABLES
    tick,          \* xTaskGetTickCount(): kernel ticks (1 kHz) since start
    g_mode,        \* mode_manager.c g_mode
    ret,           \* the last API call made and what it returned
    h_entry_tick,  \* history: tick at which the current mode was entered
    h_lastOk,      \* history: target of the most recent request that returned Ok
    h_before,      \* history: value of current before the last executed transition
    h_moved,       \* history: process has executed at least one transition
    h_clean,       \* history: no force call and no timeout expiry so far
    h_ran,         \* history: process has run since the tick last advanced
    tasks,         \* SpecConc: per-task program counter and locals
    g_mode_mutex,  \* SpecConc: holder of the mode mutex, or NoTask
    h_valFrom,     \* SpecConc history: current when the pending request was validated
    g_telecommand, \* telecommand.c g_telecommand
    tm_sent,       \* packets the dispatcher has handed to telemetry_queue_packet
    g_telemetry,   \* telemetry.c g_telemetry (packet queue and its counters)
    tm_env,        \* SpecTm: packets offered so far, calls made, last call's result
    reg_tasks,     \* SpecReg: command mutex holder, per-task position in telecommand_register
    g_boot_data,   \* boot.c g_boot_data (.noinit)
    boot,          \* boot sequencer: pc, platform inputs, selected mode, entry snapshot
    g_fdir,        \* fdir.c g_fdir
    fdir_env,      \* FDIR environment: blocked/halted flags, action trace
    g_sched,       \* scheduler.c g_sched
    g_ccsds,       \* ccsds.c g_ccsds (sequence counters and their mutex)
    g_log,         \* event_log.c g_log
    svc_env        \* environment of the service specifications: callers, traces

modeVars == <<tick, g_mode, ret, h_entry_tick, h_lastOk, h_before, h_moved, h_clean, h_ran>>
concVars == <<tasks, g_mode_mutex, h_valFrom>>
tcVars   == <<g_telecommand, tm_sent, g_telemetry, tm_env, reg_tasks>>
bootVars == <<g_boot_data, boot>>
fdirVars == <<g_fdir, fdir_env>>
svcVars  == <<g_sched, g_ccsds, g_log, svc_env>>
vars     == <<modeVars, concVars, tcVars, bootVars, fdirVars, svcVars>>
notMode  == <<concVars, tcVars, bootVars, fdirVars, svcVars>>

(***************************************************************************)
(* Enumerations (flight/core/openfsw.h)                                    *)
(***************************************************************************)
MODE_BOOT      == 0
MODE_SAFE      == 1
MODE_DETUMBLE  == 2
MODE_NOMINAL   == 3
MODE_LOW_POWER == 4
MODE_RECOVERY  == 5
MODE_COUNT     == 6

Modes == MODE_BOOT .. (MODE_COUNT - 1)

OPENFSW_OK                  == "OPENFSW_OK"
OPENFSW_ERROR_INVALID_PARAM == "OPENFSW_ERROR_INVALID_PARAM"
OPENFSW_ERROR_PERMISSION    == "OPENFSW_ERROR_PERMISSION"

MODE_DETUMBLE_TIMEOUT_S == 1800
MODE_RECOVERY_TIMEOUT_S == 3600

(***************************************************************************)
(* Bounds of the model                                                     *)
(***************************************************************************)
TickStep == 900000   \* the tick advances in steps of this many ticks (900 s)
MaxSteps == 6        \* the tick advances at most this many times (passes the
                     \* 4294967-tick wrap of osal_get_time_ms)
MaxConcSteps == 2    \* SpecConc: the tick advances at most this many times
MaxBadMode == 0      \* mode arguments range up to MODE_COUNT + MaxBadMode

ModeArgs == 0 .. (MODE_COUNT + MaxBadMode)

(***************************************************************************)
(* Time (osal_freertos.c, mode_manager.c)                                  *)
(***************************************************************************)
\* (t * 1000) mod 2^32, then / configTICK_RATE_HZ (1000), for a 32-bit tick
\* count t, computed on 16-bit limbs: the product wraps in uint32_t before the
\* division, so the millisecond clock returns to 0 every 4294967.296 ticks.
osal_get_time_ms(t) ==
    LET hi == t \div 65536
        lo == t % 65536
        c  == (lo * 1000) \div 65536
        L  == (lo * 1000) % 65536
        H  == (hi * 1000 + c) % 65536
        \* (H * 65536 + L) \div 1000, with 65536 = 65 * 1000 + 536
        q  == H * 65 + ((H * 536 + L) \div 1000)
    IN  q

get_system_time_s(t) == osal_get_time_ms(t) \div 1000

get_mode_timeout(mode) ==
    CASE mode = MODE_DETUMBLE -> MODE_DETUMBLE_TIMEOUT_S
      [] mode = MODE_RECOVERY -> MODE_RECOVERY_TIMEOUT_S
      [] OTHER                -> 0

\* uint32_t elapsed = now - entry; elapsed >= timeout.  When now < entry the
\* subtraction wraps to 2^32 - (entry - now), which is above every timeout
\* (entry - now < 4295 and the timeouts are at most 3600).
elapsed_ge(now, entry, timeout) ==
    IF now >= entry THEN now - entry >= timeout ELSE TRUE

(***************************************************************************)
(* Mode manager (flight/core/mode/mode_manager.c)                          *)
(***************************************************************************)
Rule(from, to) == [from |-> from, to |-> to, allowed |-> TRUE]

transition_rules == <<
    Rule(MODE_BOOT, MODE_SAFE), Rule(MODE_BOOT, MODE_DETUMBLE),
    Rule(MODE_BOOT, MODE_RECOVERY), Rule(MODE_BOOT, MODE_LOW_POWER),
    Rule(MODE_SAFE, MODE_DETUMBLE), Rule(MODE_SAFE, MODE_NOMINAL),
    Rule(MODE_SAFE, MODE_LOW_POWER),
    Rule(MODE_DETUMBLE, MODE_SAFE), Rule(MODE_DETUMBLE, MODE_NOMINAL),
    Rule(MODE_DETUMBLE, MODE_LOW_POWER),
    Rule(MODE_NOMINAL, MODE_SAFE), Rule(MODE_NOMINAL, MODE_DETUMBLE),
    Rule(MODE_NOMINAL, MODE_LOW_POWER), Rule(MODE_NOMINAL, MODE_RECOVERY),
    Rule(MODE_LOW_POWER, MODE_SAFE), Rule(MODE_LOW_POWER, MODE_NOMINAL),
    Rule(MODE_LOW_POWER, MODE_DETUMBLE),
    Rule(MODE_RECOVERY, MODE_SAFE), Rule(MODE_RECOVERY, MODE_NOMINAL),
    Rule(MODE_RECOVERY, MODE_DETUMBLE) >>

NUM_TRANSITIONS == Len(transition_rules)

\* The first rule of the table matching (from, to), 0 when there is none.
FirstRule(from, to) ==
    LET hit == {i \in 1..NUM_TRANSITIONS :
                    transition_rules[i].from = from /\ transition_rules[i].to = to}
    IN  IF hit = {} THEN 0 ELSE CHOOSE i \in hit : \A j \in hit : i <= j

\* Variant: a pair that is not in the table is allowed (the final return
\* answers true instead of false).
mode_manager_can_transition_DefaultAllow(from, to) ==
    IF from = to THEN FALSE
    ELSE LET r == FirstRule(from, to)
         IN  IF r # 0 THEN transition_rules[r].allowed ELSE TRUE

mode_manager_can_transition(from, to) ==
    IF from = to THEN FALSE
    ELSE LET r == FirstRule(from, to)
         IN  IF r # 0 THEN transition_rules[r].allowed ELSE FALSE

mode_manager_init(initial, now_s) ==
    [current |-> initial, previous |-> MODE_BOOT, requested |-> initial,
     entry_time_s |-> now_s, timeout_s |-> get_mode_timeout(initial),
     transition_pending |-> FALSE, forced_override |-> FALSE]

\* The status mode_manager_request(mode) returns in mode state g.
request_status(g, mode) ==
    IF mode >= MODE_COUNT THEN OPENFSW_ERROR_INVALID_PARAM
    ELSE IF ~mode_manager_can_transition(g.current, mode) THEN OPENFSW_ERROR_PERMISSION
    ELSE OPENFSW_OK

\* The mode state mode_manager_request(mode) leaves.
mode_manager_request(g, mode) ==
    IF request_status(g, mode) # OPENFSW_OK THEN g
    ELSE [g EXCEPT !.requested = mode, !.transition_pending = TRUE,
                   !.forced_override = FALSE]

mode_manager_force(g, mode) ==
    IF mode >= MODE_COUNT THEN g
    ELSE [g EXCEPT !.requested = mode, !.transition_pending = TRUE,
                   !.forced_override = TRUE]

\* The timeout check at the head of mode_manager_process.
timeout_expired(g, now_s) ==
    g.timeout_s > 0 /\ elapsed_ge(now_s, g.entry_time_s, g.timeout_s)

\* Variant: the comparison is strict (elapsed > timeout_s).
process_timeout_Strict(g, now_s) ==
    IF g.timeout_s > 0
       /\ (IF now_s >= g.entry_time_s THEN now_s - g.entry_time_s > g.timeout_s ELSE TRUE)
    THEN [g EXCEPT !.requested = MODE_SAFE, !.transition_pending = TRUE,
                   !.forced_override = TRUE]
    ELSE g

process_timeout(g, now_s) ==
    IF timeout_expired(g, now_s)
    THEN [g EXCEPT !.requested = MODE_SAFE, !.transition_pending = TRUE,
                   !.forced_override = TRUE]
    ELSE g

\* Variant: previous is assigned after current, so it takes the new mode.
process_pending_PreviousLate(g, now_s) ==
    IF g.transition_pending
    THEN [g EXCEPT !.previous = g.requested, !.current = g.requested,
                   !.entry_time_s = now_s,
                   !.timeout_s = get_mode_timeout(g.requested),
                   !.transition_pending = FALSE, !.forced_override = FALSE]
    ELSE g

\* The pending-transition block of mode_manager_process (no callbacks are
\* registered by rtos_start, so g_exit_cb and g_entry_cb are NULL).
process_pending(g, now_s) ==
    IF g.transition_pending
    THEN [g EXCEPT !.previous = g.current, !.current = g.requested,
                   !.entry_time_s = now_s,
                   !.timeout_s = get_mode_timeout(g.requested),
                   !.transition_pending = FALSE, !.forced_override = FALSE]
    ELSE g

mode_manager_process(g, now_s) == process_pending(process_timeout(g, now_s), now_s)

(***************************************************************************)
(* Initial values of the variable groups a specification does not drive    *)
(***************************************************************************)
NoTask == -1   \* no holder (the mutex is free)

IdleMode ==
    /\ tick = 0
    /\ g_mode = mode_manager_init(MODE_SAFE, 0)
    /\ ret = [op |-> "init", status |-> OPENFSW_OK, due |-> FALSE]
    /\ h_entry_tick = 0 /\ h_lastOk = MODE_SAFE /\ h_before = MODE_BOOT
    /\ h_moved = FALSE /\ h_clean = TRUE /\ h_ran = TRUE

IdleConc == tasks = <<>> /\ g_mode_mutex = NoTask /\ h_valFrom = MODE_BOOT
IdleTm   == g_telemetry = <<>> /\ tm_env = <<>>
IdleReg  == reg_tasks = <<>>
IdleTc   == g_telecommand = <<>> /\ tm_sent = <<>> /\ IdleTm /\ IdleReg
IdleBoot == g_boot_data = <<>> /\ boot = <<>>
IdleFdir == g_fdir = <<>> /\ fdir_env = <<>>
IdleSvc  == g_sched = <<>> /\ g_ccsds = <<>> /\ g_log = <<>> /\ svc_env = <<>>

(***************************************************************************)
(* SpecMode: the mode manager API, one call per step                       *)
(***************************************************************************)
\* The mode timeouts as the specification states them (seconds, 0 = none).
StatedTimeout(mode) ==
    IF mode = MODE_DETUMBLE THEN 1800 ELSE IF mode = MODE_RECOVERY THEN 3600 ELSE 0

\* The current mode has a stated timeout and at least that much time has
\* passed on the kernel tick (1 tick = 1 ms) since the mode was entered.
TimeoutDue ==
    /\ StatedTimeout(g_mode.current) > 0
    /\ tick - h_entry_tick >= StatedTimeout(g_mode.current) * 1000

\* rtos_start calls mode_manager_init(mode) before the kernel starts (tick 0).
InitMode ==
    /\ tick = 0
    /\ \E initial \in Modes :
          /\ g_mode = mode_manager_init(initial, get_system_time_s(0))
          /\ ret = [op |-> "init", status |-> OPENFSW_OK, due |-> FALSE]
          /\ h_lastOk = initial
    /\ h_entry_tick = 0 /\ h_before = MODE_BOOT
    /\ h_moved = FALSE /\ h_clean = TRUE /\ h_ran = TRUE
    /\ IdleConc /\ IdleTc /\ IdleBoot /\ IdleFdir /\ IdleSvc

\* Time passes.  mode_manager_process is a 200 ms periodic job of the
\* scheduler task (rtos_start), so it runs at least once in every TickStep.
Tick ==
    /\ h_ran
    /\ tick < TickStep * MaxSteps
    /\ tick' = tick + TickStep
    /\ h_ran' = FALSE
    /\ UNCHANGED <<g_mode, ret, h_entry_tick, h_lastOk, h_before, h_moved, h_clean>>
    /\ UNCHANGED notMode

Request(mode) ==
    /\ g_mode' = mode_manager_request(g_mode, mode)
    /\ ret' = [op |-> "request", status |-> request_status(g_mode, mode), due |-> FALSE]
    /\ h_lastOk' = IF request_status(g_mode, mode) = OPENFSW_OK THEN mode ELSE h_lastOk
    /\ UNCHANGED <<tick, h_entry_tick, h_before, h_moved, h_clean, h_ran>>
    /\ UNCHANGED notMode

Force(mode) ==
    /\ g_mode' = mode_manager_force(g_mode, mode)
    /\ ret' = [op |-> "force", status |-> OPENFSW_OK, due |-> FALSE]
    /\ h_clean' = FALSE
    /\ UNCHANGED <<tick, h_entry_tick, h_lastOk, h_before, h_moved, h_ran>>
    /\ UNCHANGED notMode

Process ==
    LET now_s == get_system_time_s(tick)
        g1    == process_timeout(g_mode, now_s)
    IN  /\ g_mode' = mode_manager_process(g_mode, now_s)
        /\ ret' = [op |-> "process", status |-> OPENFSW_OK, due |-> TimeoutDue]
        /\ h_clean' = (h_clean /\ g1 = g_mode)
        /\ h_before' = IF g1.transition_pending THEN g_mode.current ELSE h_before
        /\ h_moved' = (h_moved \/ g1.transition_pending)
        /\ h_entry_tick' = IF g1.transition_pending THEN tick ELSE h_entry_tick
        /\ h_ran' = TRUE
        /\ UNCHANGED <<tick, h_lastOk>>
        /\ UNCHANGED notMode

NextMode ==
    \/ Tick
    \/ \E mode \in ModeArgs : Request(mode)
    \/ \E mode \in ModeArgs : Force(mode)
    \/ Process

SpecMode == InitMode /\ [][NextMode]_vars

(***************************************************************************)
(* Properties of the mode manager                                          *)
(***************************************************************************)
\* The transition table as the specification lists it.
StatedTable ==
    {<<MODE_BOOT, t>> : t \in {MODE_SAFE, MODE_DETUMBLE, MODE_RECOVERY, MODE_LOW_POWER}}
    \cup {<<MODE_SAFE, t>> : t \in {MODE_DETUMBLE, MODE_NOMINAL, MODE_LOW_POWER}}
    \cup {<<MODE_DETUMBLE, t>> : t \in {MODE_SAFE, MODE_NOMINAL, MODE_LOW_POWER}}
    \cup {<<MODE_NOMINAL, t>> : t \in {MODE_SAFE, MODE_DETUMBLE, MODE_LOW_POWER, MODE_RECOVERY}}
    \cup {<<MODE_LOW_POWER, t>> : t \in {MODE_SAFE, MODE_NOMINAL, MODE_DETUMBLE}}
    \cup {<<MODE_RECOVERY, t>> : t \in {MODE_SAFE, MODE_NOMINAL, MODE_DETUMBLE}}

\* C1: a request for a pair (current, to) that is not in the transition table
\* (from = to included) returns permission-denied and changes no field of the
\* mode state; a request with a mode value >= MODE_COUNT returns
\* invalid-parameter and changes nothing either.
C1_DeniedRequestChangesNothing ==
    [][\A mode \in ModeArgs :
          (ret'.op = "request" /\ Request(mode)) =>
            /\ (mode >= MODE_COUNT =>
                  ret'.status = OPENFSW_ERROR_INVALID_PARAM /\ g_mode' = g_mode)
            /\ (mode < MODE_COUNT /\ <<g_mode.current, mode>> \notin StatedTable =>
                  ret'.status = OPENFSW_ERROR_PERMISSION /\ g_mode' = g_mode)]_vars

\* A denied request has been made while a legal one was pending.
C1_Witness ==
    /\ ret.op = "request" /\ ret.status = OPENFSW_ERROR_PERMISSION
    /\ g_mode.transition_pending /\ g_mode.current = MODE_SAFE

\* C2: with no force call and no timeout expiry so far, after a process call
\* current is the target of the most recent request that returned Ok (the
\* initial mode if none did) and previous is the value current had right
\* before the last transition process executed.
C2_CurrentFollowsRequests ==
    (h_clean /\ ret.op = "process") =>
        /\ g_mode.current = h_lastOk
        /\ (h_moved => g_mode.previous = h_before)

\* Two requested transitions have been executed, ending in NOMINAL from DETUMBLE.
C2_Witness ==
    /\ h_clean /\ ret.op = "process" /\ h_moved
    /\ g_mode.current = MODE_NOMINAL /\ g_mode.previous = MODE_DETUMBLE
    /\ h_lastOk = MODE_NOMINAL

Requesters == {1, 2} \* the tasks that call mode_manager_request
ProcTask   == 0      \* the scheduler task, which runs mode_manager_process
TaskIds    == {ProcTask} \cup Requesters

notConc == <<ret, h_entry_tick, h_lastOk, h_before, h_moved, h_clean, h_ran,
             tcVars, bootVars, fdirVars, svcVars>>

\* Variant: the take does not wait for the holder to give the mutex.
osal_mutex_lock_NoWait(mutex, self) == TRUE

\* xSemaphoreTake(mutex, portMAX_DELAY) on a non-recursive mutex: the caller
\* proceeds only when no task holds it.
osal_mutex_lock(mutex, self) == mutex = NoTask

IdleTask == [pc |-> "idle", arg |-> MODE_BOOT, from |-> MODE_BOOT, status |-> OPENFSW_OK]

InitConc ==
    /\ tick = 0
    /\ \E initial \in Modes :
          /\ g_mode = mode_manager_init(initial, get_system_time_s(0))
          /\ h_lastOk = initial
          /\ h_valFrom = initial
    /\ ret = [op |-> "init", status |-> OPENFSW_OK, due |-> FALSE]
    /\ h_entry_tick = 0 /\ h_before = MODE_BOOT
    /\ h_moved = FALSE /\ h_clean = TRUE /\ h_ran = TRUE
    /\ tasks = [t \in TaskIds |-> IdleTask]
    /\ g_mode_mutex = NoTask
    /\ IdleTc /\ IdleBoot /\ IdleFdir /\ IdleSvc

\* Time passes between calls.
TickConc ==
    /\ \A t \in TaskIds : tasks[t].pc = "idle"
    /\ tick < TickStep * MaxConcSteps
    /\ tick' = tick + TickStep
    /\ UNCHANGED <<g_mode, tasks, g_mode_mutex, h_valFrom, notConc>>

\* mode_manager_request(mode): entry and parameter check (before the lock).
ReqCall(self, mode) ==
    /\ tasks[self].pc = "idle"
    /\ tasks' = [tasks EXCEPT ![self] =
                    IF mode >= MODE_COUNT
                    THEN [IdleTask EXCEPT !.status = OPENFSW_ERROR_INVALID_PARAM]
                    ELSE [IdleTask EXCEPT !.pc = "lock", !.arg = mode]]
    /\ UNCHANGED <<tick, g_mode, g_mode_mutex, h_valFrom, notConc>>

Lock(self) ==
    /\ tasks[self].pc = "lock"
    /\ osal_mutex_lock(g_mode_mutex, self)
    /\ g_mode_mutex' = self
    /\ tasks' = [tasks EXCEPT ![self].pc = IF self = ProcTask THEN "timeout" ELSE "check"]
    /\ UNCHANGED <<tick, g_mode, h_valFrom, notConc>>

\* if (!mode_manager_can_transition(g_mode.current, mode))
ReqCheck(self) ==
    /\ tasks[self].pc = "check"
    /\ tasks' = [tasks EXCEPT ![self] =
                    IF mode_manager_can_transition(g_mode.current, tasks[self].arg)
                    THEN [@ EXCEPT !.pc = "arm", !.from = g_mode.current]
                    ELSE [@ EXCEPT !.pc = "unlock", !.arg = MODE_BOOT,
                                   !.status = OPENFSW_ERROR_PERMISSION]]
    /\ UNCHANGED <<tick, g_mode, g_mode_mutex, h_valFrom, notConc>>

\* g_mode.requested = mode; transition_pending = true; forced_override = false
ReqArm(self) ==
    /\ tasks[self].pc = "arm"
    /\ g_mode' = [g_mode EXCEPT !.requested = tasks[self].arg,
                                !.transition_pending = TRUE,
                                !.forced_override = FALSE]
    /\ h_valFrom' = tasks[self].from
    /\ tasks' = [tasks EXCEPT ![self] = [IdleTask EXCEPT !.pc = "unlock"]]
    /\ UNCHANGED <<tick, g_mode_mutex, notConc>>

Unlock(self) ==
    /\ tasks[self].pc = "unlock"
    /\ g_mode_mutex' = IF g_mode_mutex = self THEN NoTask ELSE g_mode_mutex
    /\ tasks' = [tasks EXCEPT ![self] = IdleTask]
    /\ UNCHANGED <<tick, g_mode, h_valFrom, notConc>>

\* mode_manager_process(): entry.
ProcCall ==
    /\ tasks[ProcTask].pc = "idle"
    /\ tasks' = [tasks EXCEPT ![ProcTask] = [IdleTask EXCEPT !.pc = "lock"]]
    /\ UNCHANGED <<tick, g_mode, g_mode_mutex, h_valFrom, notConc>>

ProcTimeout ==
    /\ tasks[ProcTask].pc = "timeout"
    /\ g_mode' = process_timeout(g_mode, get_system_time_s(tick))
    /\ tasks' = [tasks EXCEPT ![ProcTask].pc = "apply"]
    /\ UNCHANGED <<tick, g_mode_mutex, h_valFrom, notConc>>

\* previous = current; current = requested; entry_time_s; timeout_s
ProcApply ==
    /\ tasks[ProcTask].pc = "apply"
    /\ IF g_mode.transition_pending
       THEN /\ g_mode' = [process_pending(g_mode, get_system_time_s(tick)) EXCEPT
                             !.transition_pending = g_mode.transition_pending,
                             !.forced_override = g_mode.forced_override]
            /\ tasks' = [tasks EXCEPT ![ProcTask].pc = "clear"]
       ELSE /\ g_mode' = g_mode
            /\ tasks' = [tasks EXCEPT ![ProcTask].pc = "unlock"]
    /\ UNCHANGED <<tick, g_mode_mutex, h_valFrom, notConc>>

\* transition_pending = false; forced_override = false
ProcClear ==
    /\ tasks[ProcTask].pc = "clear"
    /\ g_mode' = [g_mode EXCEPT !.transition_pending = FALSE, !.forced_override = FALSE]
    /\ tasks' = [tasks EXCEPT ![ProcTask].pc = "unlock"]
    /\ UNCHANGED <<tick, g_mode_mutex, h_valFrom, notConc>>

NextConc ==
    \/ TickConc
    \/ \E self \in Requesters, mode \in ModeArgs : ReqCall(self, mode)
    \/ \E self \in TaskIds : Lock(self)
    \/ \E self \in Requesters : ReqCheck(self)
    \/ \E self \in Requesters : ReqArm(self)
    \/ \E self \in TaskIds : Unlock(self)
    \/ ProcCall
    \/ ProcTimeout
    \/ ProcApply
    \/ ProcClear

SpecConc == InitConc /\ [][NextConc]_vars

\* The program counters at which a task is between its lock and its unlock.
InCritical(t) == tasks[t].pc \in {"check", "arm", "timeout", "apply", "clear", "unlock"}

TC_MAX_HANDLERS   == 64
TC_HISTORY_SIZE   == 16
TC_SAFE_LIST_SIZE == 16

TC_AUTH_NONE     == 0
TC_AUTH_BASIC    == 1
TC_AUTH_ELEVATED == 2
TC_AUTH_CRITICAL == 3

TC_STATUS_ACCEPTED         == "TC_STATUS_ACCEPTED"
TC_STATUS_REJECTED_AUTH    == "TC_STATUS_REJECTED_AUTH"
TC_STATUS_REJECTED_INVALID == "TC_STATUS_REJECTED_INVALID"
TC_STATUS_EXECUTED         == "TC_STATUS_EXECUTED"
TC_STATUS_FAILED           == "TC_STATUS_FAILED"

PUS_SVC_REQUEST_VERIFICATION == 1
PUS_SVC_HOUSEKEEPING  == 3
PUS_SVC_FUNCTION_MGMT == 8
PUS_SVC_TIME_MGMT     == 9
PUS_SVC_TEST          == 17

CCSDS_VERSION == 0
CCSDS_TYPE_TC == 1

MaxTc == 2   \* bound: telecommands processed in one behaviour

TcDef(st, sst, auth, handler) ==
    [service_type |-> st, service_subtype |-> sst, auth_level |-> auth, handler |-> handler]

\* Index of the first handler registered for the pair, 0 when there is none.
find_handler(g, st, sst) ==
    LET hit == {i \in 1..Len(g.handlers) :
                    g.handlers[i].service_type = st /\ g.handlers[i].service_subtype = sst}
    IN  IF hit = {} THEN 0 ELSE CHOOSE i \in hit : \A j \in hit : i <= j

register_status(g, def) ==
    IF Len(g.handlers) >= TC_MAX_HANDLERS THEN "OPENFSW_ERROR_NO_MEMORY"
    ELSE IF find_handler(g, def.service_type, def.service_subtype) # 0
         THEN "OPENFSW_ERROR_BUSY"
    ELSE OPENFSW_OK

telecommand_register(g, def) ==
    IF register_status(g, def) = OPENFSW_OK
    THEN [g EXCEPT !.handlers = Append(@, def)]
    ELSE g

telecommand_add_to_safe_list(g, st, sst) ==
    IF Len(g.safe_list) >= TC_SAFE_LIST_SIZE THEN g
    ELSE [g EXCEPT !.safe_list = Append(@, <<st, sst>>)]

\* Variant: every pair counts as allow-listed.
telecommand_is_safe_Always(g, st, sst) == TRUE

telecommand_is_safe(g, st, sst) ==
    \E i \in 1..Len(g.safe_list) : g.safe_list[i] = <<st, sst>>

\* memset(&g_telecommand, 0, ...): an empty registry, zeroed history and counters.
ZeroTelecommand ==
    [handlers |-> <<>>, safe_list |-> <<>>, auth_key_set |-> FALSE,
     history |-> [i \in 0..(TC_HISTORY_SIZE - 1) |->
                     [sequence |-> 0, service_type |-> 0, service_subtype |-> 0,
                      status |-> TC_STATUS_ACCEPTED]],
     history_idx |-> 0,
     accepted_count |-> 0, rejected_count |-> 0, executed_count |-> 0]

RECURSIVE RegisterAll(_, _)
RegisterAll(g, defs) ==
    IF defs = <<>> THEN g ELSE RegisterAll(telecommand_register(g, Head(defs)), Tail(defs))

telecommand_init ==
    LET g0 == RegisterAll(ZeroTelecommand, <<
                TcDef(PUS_SVC_TEST, 1, TC_AUTH_NONE, "tc_handler_ping"),
                TcDef(PUS_SVC_TEST, 2, TC_AUTH_NONE, "tc_handler_connection_test"),
                TcDef(PUS_SVC_FUNCTION_MGMT, 1, TC_AUTH_ELEVATED, "tc_handler_mode_change"),
                TcDef(PUS_SVC_FUNCTION_MGMT, 4, TC_AUTH_CRITICAL, "tc_handler_reset"),
                TcDef(PUS_SVC_HOUSEKEEPING, 5, TC_AUTH_BASIC, "tc_handler_enable_hk"),
                TcDef(PUS_SVC_HOUSEKEEPING, 6, TC_AUTH_BASIC, "tc_handler_disable_hk"),
                TcDef(PUS_SVC_TIME_MGMT, 1, TC_AUTH_ELEVATED, "tc_handler_time_sync") >>)
        g1 == telecommand_add_to_safe_list(g0, PUS_SVC_TEST, 1)
        g2 == telecommand_add_to_safe_list(g1, PUS_SVC_TEST, 2)
        g3 == telecommand_add_to_safe_list(g2, PUS_SVC_HOUSEKEEPING, 5)
    IN  telecommand_add_to_safe_list(g3, PUS_SVC_HOUSEKEEPING, 6)

\* Variant: the CRC is not compared.
ccsds_validate_tc_NoCrc(pkt) ==
    /\ pkt.version = CCSDS_VERSION
    /\ pkt.type = CCSDS_TYPE_TC

\* ccsds_validate_tc: version, type, and the stored CRC against the CRC
\* computed over headers and data (carried by the packet as crc_match).
ccsds_validate_tc(pkt) ==
    /\ pkt.version = CCSDS_VERSION
    /\ pkt.type = CCSDS_TYPE_TC
    /\ pkt.crc_match

telecommand_validate(g, pkt) ==
    /\ ccsds_validate_tc(pkt)
    /\ find_handler(g, pkt.service_type, pkt.service_subtype) # 0

\* TODO in the source: every packet verifies.
telecommand_verify_auth(g, pkt) == TRUE

\* Variant: the safe-mode allow-list is not consulted.
telecommand_authorize_NoSafeList(g, pkt, required, current) ==
    IF required = TC_AUTH_NONE THEN TRUE
    ELSE IF g.auth_key_set /\ required >= TC_AUTH_ELEVATED
         THEN telecommand_verify_auth(g, pkt)
    ELSE TRUE

\* current is mode_get_current().
telecommand_authorize(g, pkt, required, current) ==
    IF required = TC_AUTH_NONE THEN TRUE
    ELSE IF current = MODE_SAFE
            /\ ~telecommand_is_safe(g, pkt.service_type, pkt.service_subtype)
         THEN FALSE
    ELSE IF g.auth_key_set /\ required >= TC_AUTH_ELEVATED
         THEN telecommand_verify_auth(g, pkt)
    ELSE TRUE

record_command(g, pkt, status) ==
    [g EXCEPT !.history[g.history_idx] =
                  [sequence |-> pkt.sequence, service_type |-> pkt.service_type,
                   service_subtype |-> pkt.service_subtype, status |-> status],
              !.history_idx = (g.history_idx + 1) % TC_HISTORY_SIZE]

\* Variant: every completion acknowledgment carries subtype 7.
AckTm_AlwaysExecuted(sequence, status) ==
    [service_type |-> PUS_SVC_REQUEST_VERIFICATION,
     service_subtype |-> IF status = TC_STATUS_ACCEPTED THEN 1 ELSE 7,
     sequence |-> sequence, status |-> status]

\* The request-verification TM telecommand_send_ack builds and queues.
AckTm(sequence, status) ==
    [service_type |-> PUS_SVC_REQUEST_VERIFICATION,
     service_subtype |-> IF status = TC_STATUS_ACCEPTED THEN 1
                         ELSE IF status = TC_STATUS_EXECUTED THEN 7 ELSE 8,
     sequence |-> sequence, status |-> status]

\* The status a handler returns for data on mode state gm.  The housekeeping
\* and time handlers are taken on their short-data path only (len < 2, len < 6).
handler_status(handler, data, gm) ==
    CASE handler = "tc_handler_ping" -> TC_STATUS_EXECUTED
      [] handler = "tc_handler_connection_test" -> TC_STATUS_EXECUTED
      [] handler = "tc_handler_reset" -> TC_STATUS_EXECUTED
      [] handler = "tc_handler_mode_change" ->
            IF Len(data) < 1 THEN TC_STATUS_FAILED
            ELSE IF data[1] >= MODE_COUNT THEN TC_STATUS_FAILED
            ELSE IF request_status(gm, data[1]) = OPENFSW_OK THEN TC_STATUS_EXECUTED
            ELSE TC_STATUS_FAILED
      [] handler \in {"tc_handler_enable_hk", "tc_handler_disable_hk"}
            /\ Len(data) < 2 -> TC_STATUS_FAILED
      [] handler = "tc_handler_time_sync" /\ Len(data) < 6 -> TC_STATUS_FAILED

\* The mode state a handler leaves.
handler_mode(handler, data, gm) ==
    IF handler = "tc_handler_mode_change" /\ Len(data) >= 1
    THEN (IF data[1] >= MODE_COUNT THEN gm ELSE mode_manager_request(gm, data[1]))
    ELSE gm

\* The calls telecommand_process makes from acceptance on, in order.
AcceptedCalls(handler, sequence, result) ==
    << [call |-> "telecommand_send_ack", tm |-> AckTm(sequence, TC_STATUS_ACCEPTED)],
       [call |-> "osal_mutex_unlock"],
       [call |-> handler],
       [call |-> "osal_mutex_lock"],
       [call |-> "telecommand_send_ack", tm |-> AckTm(sequence, result)],
       [call |-> "osal_mutex_unlock"] >>

\* telecommand_process(pkt): [status returned, dispatcher state, mode state,
\* packets queued, calls made after the authorization step], for dispatcher
\* state g and mode state gm.
telecommand_process(g, gm, pkt) ==
    IF ~telecommand_validate(g, pkt)
    THEN [status |-> TC_STATUS_REJECTED_INVALID,
          g |-> record_command([g EXCEPT !.rejected_count = @ + 1], pkt,
                               TC_STATUS_REJECTED_INVALID),
          gm |-> gm, sent |-> <<>>, calls |-> << [call |-> "osal_mutex_unlock"] >>]
    ELSE LET def == g.handlers[find_handler(g, pkt.service_type, pkt.service_subtype)]
         IN  IF ~telecommand_authorize(g, pkt, def.auth_level, gm.current)
             THEN [status |-> TC_STATUS_REJECTED_AUTH,
                   g |-> record_command([g EXCEPT !.rejected_count = @ + 1], pkt,
                                        TC_STATUS_REJECTED_AUTH),
                   gm |-> gm, sent |-> <<>>,
                   calls |-> << [call |-> "osal_mutex_unlock"] >>]
             ELSE LET result == handler_status(def.handler, pkt.data, gm)
                      ga == [g EXCEPT !.accepted_count = @ + 1]
                      ge == IF result = TC_STATUS_EXECUTED
                            THEN [ga EXCEPT !.executed_count = @ + 1] ELSE ga
                  IN  [status |-> result,
                       g |-> record_command(ge, pkt, result),
                       gm |-> handler_mode(def.handler, pkt.data, gm),
                       sent |-> << AckTm(pkt.sequence, TC_STATUS_ACCEPTED),
                                   AckTm(pkt.sequence, result) >>,
                       calls |-> AcceptedCalls(def.handler, pkt.sequence, result)]

(***************************************************************************)
(* Telemetry queue (flight/comms/telemetry.c)                              *)
(***************************************************************************)
TM_QUEUE_SIZE == 16

TM_PRIORITY_LOW      == 0
TM_PRIORITY_NORMAL   == 1
TM_PRIORITY_HIGH     == 2
TM_PRIORITY_CRITICAL == 3
TmPriorities == TM_PRIORITY_LOW..TM_PRIORITY_CRITICAL

OPENFSW_ERROR_OVERFLOW  == "OPENFSW_ERROR_OVERFLOW"
OPENFSW_ERROR_NOT_FOUND == "OPENFSW_ERROR_NOT_FOUND"

TmSlots == 0..(TM_QUEUE_SIZE - 1)

\* A zeroed tm_queue_entry_t.
ZeroEntry == [packet |-> [id |-> 0], priority |-> TM_PRIORITY_LOW, valid |-> FALSE]

TM_MAX_DEFINITIONS   == 32
TM_HK_DEFAULT_PERIOD == 1000
TM_MIN_PERIOD        == 100

TM_TYPE_HOUSEKEEPING == 0
TM_TYPE_EVENT        == 1

APID_SYSTEM == 1
APID_POWER  == 3
APID_ADCS   == 4
APID_COMMS  == 5

\* A tm_definition_t as a caller's initializer leaves it (last_sent_ms = 0).
TmDef(packet_id, apid, type, priority, period_ms, generator) ==
    [packet_id |-> packet_id, apid |-> apid, type |-> type, priority |-> priority,
     period_ms |-> period_ms, last_sent_ms |-> 0, enabled |-> TRUE,
     generator |-> generator]

\* Index of the definition with the packet id, 0 when there is none.
find_definition(g, packet_id) ==
    LET hit == {i \in 1..Len(g.definitions) : g.definitions[i].packet_id = packet_id}
    IN  IF hit = {} THEN 0 ELSE CHOOSE i \in hit : \A j \in hit : i <= j

\* telemetry_register(def): [status, g].
telemetry_register(g, def) ==
    IF Len(g.definitions) >= TM_MAX_DEFINITIONS
    THEN [status |-> "OPENFSW_ERROR_NO_MEMORY", g |-> g]
    ELSE IF find_definition(g, def.packet_id) # 0
         THEN [status |-> "OPENFSW_ERROR_BUSY", g |-> g]
    ELSE [status |-> OPENFSW_OK, g |-> [g EXCEPT !.definitions = Append(@, def)]]

\* telemetry_init: memset of g_telemetry, then the four standard
\* housekeeping definitions (queue_head is never read or written afterwards).
telemetry_init ==
    LET g0 == [queue |-> [i \in TmSlots |-> ZeroEntry],
               queue_tail |-> 0, queue_count |-> 0,
               packets_queued |-> 0, packets_sent |-> 0, queue_overflows |-> 0,
               definitions |-> <<>>, packets_generated |-> 0]
        g1 == telemetry_register(g0, TmDef(1, APID_SYSTEM, TM_TYPE_HOUSEKEEPING,
                  TM_PRIORITY_NORMAL, TM_HK_DEFAULT_PERIOD, "telemetry_gen_system_hk")).g
        g2 == telemetry_register(g1, TmDef(2, APID_POWER, TM_TYPE_HOUSEKEEPING,
                  TM_PRIORITY_NORMAL, TM_HK_DEFAULT_PERIOD, "telemetry_gen_power_hk")).g
        g3 == telemetry_register(g2, TmDef(3, APID_ADCS, TM_TYPE_HOUSEKEEPING,
                  TM_PRIORITY_NORMAL, TM_HK_DEFAULT_PERIOD, "telemetry_gen_adcs_hk")).g
    IN  telemetry_register(g3, TmDef(4, APID_COMMS, TM_TYPE_HOUSEKEEPING,
                  TM_PRIORITY_NORMAL, 5000, "telemetry_gen_comms_hk")).g

\* The preemption scan of telemetry_queue_packet from slot i on: the first
\* valid slot whose priority is below the incoming one, or TM_QUEUE_SIZE.
RECURSIVE first_lower(_, _, _)
first_lower(g, priority, i) ==
    IF i >= TM_QUEUE_SIZE THEN TM_QUEUE_SIZE
    ELSE IF g.queue[i].valid /\ g.queue[i].priority < priority THEN i
    ELSE first_lower(g, priority, i + 1)

\* telemetry_queue_packet(pkt, priority): [status, g].
telemetry_queue_packet(g, pkt, priority) ==
    LET full  == g.queue_count >= TM_QUEUE_SIZE
        freed == IF full /\ priority >= TM_PRIORITY_HIGH
                 THEN first_lower(g, priority, 0) ELSE TM_QUEUE_SIZE
        g1    == IF freed < TM_QUEUE_SIZE
                 THEN [g EXCEPT !.queue[freed].valid = FALSE, !.queue_count = @ - 1]
                 ELSE g
        slot  == g1.queue_tail
    IN  IF full /\ g1.queue_count >= TM_QUEUE_SIZE
        THEN [status |-> OPENFSW_ERROR_OVERFLOW,
              g |-> [g1 EXCEPT !.queue_overflows = @ + 1]]
        ELSE [status |-> OPENFSW_OK,
              g |-> [g1 EXCEPT !.queue[slot] = [packet |-> pkt, priority |-> priority,
                                               valid |-> TRUE],
                               !.queue_tail = (g1.queue_tail + 1) % TM_QUEUE_SIZE,
                               !.queue_count = @ + 1,
                               !.packets_queued = @ + 1]]

\* The scan of telemetry_dequeue_packet from slot i on, with the best slot
\* found so far (-1: none) and its priority.
RECURSIVE best_slot(_, _, _, _)
best_slot(g, i, best_idx, best_priority) ==
    IF i >= TM_QUEUE_SIZE THEN best_idx
    ELSE IF g.queue[i].valid /\ g.queue[i].priority >= best_priority
         THEN best_slot(g, i + 1, i, g.queue[i].priority)
    ELSE best_slot(g, i + 1, best_idx, best_priority)

\* telemetry_dequeue_packet(pkt): [status, g, packet].
telemetry_dequeue_packet(g) ==
    LET best_idx == best_slot(g, 0, -1, TM_PRIORITY_LOW)
    IN  IF g.queue_count = 0 \/ best_idx < 0
        THEN [status |-> OPENFSW_ERROR_NOT_FOUND, g |-> g, packet |-> [id |-> 0]]
        ELSE [status |-> OPENFSW_OK,
              g |-> [g EXCEPT !.queue[best_idx].valid = FALSE,
                              !.queue_count = @ - 1,
                              !.packets_sent = @ + 1],
              packet |-> g.queue[best_idx].packet]

\* The queue after offering the packets of seq in order at one priority.
RECURSIVE QueueAll(_, _, _)
QueueAll(g, seq, priority) ==
    IF seq = <<>> THEN g
    ELSE QueueAll(telemetry_queue_packet(g, Head(seq), priority).g, Tail(seq), priority)

(***************************************************************************)
(* SpecTc: telecommands arriving at the dispatcher, one call per step      *)
(***************************************************************************)
TcPackets ==
    [version : {CCSDS_VERSION}, type : {CCSDS_TYPE_TC}, crc_match : BOOLEAN,
     service_type : {PUS_SVC_FUNCTION_MGMT, PUS_SVC_TEST},
     service_subtype : {1, 4, 9},
     sequence : {5},
     data : {<<>>, <<MODE_NOMINAL>>, <<MODE_DETUMBLE>>, <<MODE_COUNT>>}]
    \cup
    [version : {CCSDS_VERSION, 1}, type : {CCSDS_TYPE_TC, 0}, crc_match : {TRUE},
     service_type : {PUS_SVC_HOUSEKEEPING, PUS_SVC_TIME_MGMT},
     service_subtype : {1, 5},
     sequence : {5},
     data : {<<>>}]

notTc == <<tick, h_entry_tick, h_lastOk, h_before, h_moved, h_clean, h_ran,
           reg_tasks, concVars, bootVars, fdirVars, svcVars>>

InitTc ==
    /\ tick = 0
    /\ \E initial \in Modes :
          /\ g_mode = mode_manager_init(initial, get_system_time_s(0))
          /\ h_lastOk = initial
    /\ ret = [op |-> "init", status |-> OPENFSW_OK, due |-> FALSE]
    /\ h_entry_tick = 0 /\ h_before = MODE_BOOT
    /\ h_moved = FALSE /\ h_clean = TRUE /\ h_ran = TRUE
    /\ g_telecommand = telecommand_init
    /\ tm_sent = <<>>
    /\ g_telemetry = telemetry_init
    /\ tm_env = <<>> /\ IdleReg
    /\ IdleConc /\ IdleBoot /\ IdleFdir /\ IdleSvc

TcProcess(pkt) ==
    LET r == telecommand_process(g_telecommand, g_mode, pkt)
    IN  /\ g_telecommand.accepted_count + g_telecommand.rejected_count < MaxTc
        /\ g_telecommand' = r.g
        /\ g_mode' = r.gm
        /\ tm_sent' = tm_sent \o r.sent
        /\ g_telemetry' = QueueAll(g_telemetry, r.sent, TM_PRIORITY_HIGH)
        /\ ret' = [op |-> "tc", status |-> r.status, due |-> FALSE,
                   pkt |-> pkt, mode |-> g_mode.current, calls |-> r.calls]
        /\ UNCHANGED <<tm_env, notTc>>

TcAddToSafeList(st, sst) ==
    /\ ~telecommand_is_safe(g_telecommand, st, sst)
    /\ g_telecommand' = telecommand_add_to_safe_list(g_telecommand, st, sst)
    /\ ret' = [op |-> "add_to_safe_list", status |-> OPENFSW_OK, due |-> FALSE]
    /\ UNCHANGED <<g_mode, tm_sent, g_telemetry, tm_env, notTc>>

\* telecommand_set_auth_key(key, len) with a key of 1..16 bytes.
TcSetAuthKey ==
    /\ ~g_telecommand.auth_key_set
    /\ g_telecommand' = [g_telecommand EXCEPT !.auth_key_set = TRUE]
    /\ ret' = [op |-> "set_auth_key", status |-> OPENFSW_OK, due |-> FALSE]
    /\ UNCHANGED <<g_mode, tm_sent, g_telemetry, tm_env, notTc>>

TcModeProcess ==
    /\ g_mode' = mode_manager_process(g_mode, get_system_time_s(tick))
    /\ ret' = [op |-> "process", status |-> OPENFSW_OK, due |-> FALSE,
               after |-> IF ret.op = "tc" THEN ret ELSE [op |-> "none"]]
    /\ UNCHANGED <<g_telecommand, tm_sent, g_telemetry, tm_env, notTc>>

NextTc ==
    \/ \E pkt \in TcPackets : TcProcess(pkt)
    \/ TcAddToSafeList(PUS_SVC_FUNCTION_MGMT, 1)
    \/ TcSetAuthKey
    \/ TcModeProcess

SpecTc == InitTc /\ [][NextTc]_vars

\* The mode-change telecommand of the scenario: service 8, subtype 1, data [3].
ModeChangeNominal ==
    [version |-> CCSDS_VERSION, type |-> CCSDS_TYPE_TC, crc_match |-> TRUE,
     service_type |-> PUS_SVC_FUNCTION_MGMT, service_subtype |-> 1,
     sequence |-> 5, data |-> <<MODE_NOMINAL>>]

\* The scenario's start: default registry and allow-list, no key, mode SAFE.
ScenarioStart ==
    /\ g_telecommand.handlers = telecommand_init.handlers
    /\ g_telecommand.safe_list = telecommand_init.safe_list
    /\ ~g_telecommand.auth_key_set
    /\ g_mode.current = MODE_SAFE

\* C5 as stated: from the scenario's start the mode-change telecommand is
\* accepted and its handler's request(NOMINAL) returns Ok.
C5_AsStated ==
    [][(ScenarioStart /\ TcProcess(ModeChangeNominal)) =>
          /\ ret'.status = TC_STATUS_EXECUTED
          /\ g_mode'.requested = MODE_NOMINAL /\ g_mode'.transition_pending]_vars

\* C5 amended: with the default registry, no key and current mode SAFE, the
\* mode-change telecommand (8,1) [3] is rejected with RejectedAuth and leaves
\* the mode state unchanged while (8,1) is not on the safe-mode allow-list;
\* once (8,1) is on the allow-list it is accepted, request(NOMINAL) returns Ok,
\* and a mode_manager_process call made next ends with current = NOMINAL and
\* previous = SAFE.
C5_ModeChangeFromSafe ==
    [][/\ (/\ g_telecommand.handlers = telecommand_init.handlers
           /\ ~g_telecommand.auth_key_set
           /\ g_mode.current = MODE_SAFE
           /\ TcProcess(ModeChangeNominal)) =>
             IF telecommand_is_safe(g_telecommand, PUS_SVC_FUNCTION_MGMT, 1)
             THEN /\ ret'.status = TC_STATUS_EXECUTED
                  /\ g_telecommand'.accepted_count = g_telecommand.accepted_count + 1
                  /\ g_mode'.requested = MODE_NOMINAL /\ g_mode'.transition_pending
             ELSE /\ ret'.status = TC_STATUS_REJECTED_AUTH
                  /\ g_telecommand'.rejected_count = g_telecommand.rejected_count + 1
                  /\ g_mode' = g_mode
       /\ (/\ ret.op = "tc" /\ ret.pkt = ModeChangeNominal
           /\ ret.status = TC_STATUS_EXECUTED /\ ret.mode = MODE_SAFE
           /\ TcModeProcess) =>
             g_mode'.current = MODE_NOMINAL /\ g_mode'.previous = MODE_SAFE]_vars

\* The accepted mode-change telecommand has been carried out by process.
C5_Witness ==
    /\ ret.op = "process" /\ ret.after.op = "tc"
    /\ ret.after.pkt = ModeChangeNominal /\ ret.after.mode = MODE_SAFE
    /\ ret.after.status = TC_STATUS_EXECUTED
    /\ ~g_telecommand.auth_key_set
    /\ g_mode.current = MODE_NOMINAL /\ g_mode.previous = MODE_SAFE

(***************************************************************************)
(* Boot (flight/boot/boot.c).  A uint32_t is a pair <<high, low>> of       *)
(* 16-bit halves.                                                          *)
(***************************************************************************)
RESET_CAUSE_UNKNOWN   == 0
RESET_CAUSE_POWER_ON  == 1
RESET_CAUSE_PIN       == 2
RESET_CAUSE_WATCHDOG  == 3
RESET_CAUSE_SOFTWARE  == 4
RESET_CAUSE_BROWN_OUT == 5
RESET_CAUSE_LOW_POWER == 6
ResetCauses == RESET_CAUSE_UNKNOWN .. RESET_CAUSE_LOW_POWER

BOOT_SAFE_THRESHOLD == 3
BOOT_COUNTER_MAGIC  == <<45063, 49374>>   \* 0xB007C0DE
ChecksumMask        == <<57005, 48879>>   \* 0xDEADBEEF

MaxBoots == 2   \* bound: boot sequences in one behaviour

u32(n) == <<0, n>>
u32_inc(x) ==
    IF x[2] = 65535 THEN <<(x[1] + 1) % 65536, 0>> ELSE <<x[1], x[2] + 1>>
u32_ge(x, n) == x[1] > 0 \/ x[2] >= n

RECURSIVE xor_bits(_, _, _)
xor_bits(a, b, bits) ==
    IF bits = 0 THEN 0
    ELSE (((a % 2) + (b % 2)) % 2) + 2 * xor_bits(a \div 2, b \div 2, bits - 1)

u32_xor(x, y) == <<xor_bits(x[1], y[1], 16), xor_bits(x[2], y[2], 16)>>

\* Sum of the four bytes of a uint32_t.
byte_sum(x) == (x[1] \div 256) + (x[1] % 256) + (x[2] \div 256) + (x[2] % 256)

\* Sum of the bytes before the checksum field, XOR 0xDEADBEEF.  The two
\* enumeration fields hold values below 256, so each contributes its value.
boot_compute_checksum(d) ==
    u32_xor(u32(byte_sum(d.magic) + byte_sum(d.boot_count)
                + byte_sum(d.reset_count_watchdog) + byte_sum(d.reset_count_brownout)
                + byte_sum(d.reset_count_software)
                + d.last_reset_cause + d.requested_mode),
            ChecksumMask)

boot_validate_persistent(d) ==
    IF d.magic # BOOT_COUNTER_MAGIC THEN FALSE
    ELSE d.checksum = boot_compute_checksum(d)

\* Variant: the stored checksum is left as it is.
boot_update_persistent_Stale(d) == d

boot_update_persistent(d) == [d EXCEPT !.checksum = boot_compute_checksum(d)]

boot_init_persistent ==
    boot_update_persistent(
        [magic |-> BOOT_COUNTER_MAGIC, boot_count |-> u32(0),
         reset_count_watchdog |-> u32(0), reset_count_brownout |-> u32(0),
         reset_count_software |-> u32(0),
         last_reset_cause |-> RESET_CAUSE_UNKNOWN, requested_mode |-> MODE_BOOT,
         checksum |-> u32(0)])

\* Variant: only the watchdog counter is looked at.
boot_is_safe_required_CounterOnly(d) ==
    u32_ge(d.reset_count_watchdog, BOOT_SAFE_THRESHOLD)

boot_is_safe_required(d) ==
    IF u32_ge(d.reset_count_watchdog, BOOT_SAFE_THRESHOLD) THEN TRUE
    ELSE IF d.last_reset_cause = RESET_CAUSE_BROWN_OUT THEN TRUE
    ELSE FALSE

boot_increment_counter(d) ==
    boot_update_persistent([d EXCEPT !.boot_count = u32_inc(@)])

boot_clear_counters(d) ==
    boot_update_persistent([d EXCEPT !.reset_count_watchdog = u32(0),
                                     !.reset_count_brownout = u32(0)])

\* boot_select_mode(cause) on record d with the strap reading pin:
\* [mode returned, record left].
boot_select_mode(d, pin, cause) ==
    IF pin THEN [mode |-> MODE_SAFE, data |-> d]
    ELSE IF boot_is_safe_required(d) THEN [mode |-> MODE_SAFE, data |-> d]
    ELSE CASE cause = RESET_CAUSE_WATCHDOG ->
                LET d1 == [d EXCEPT !.reset_count_watchdog = u32_inc(@)]
                IN  [mode |-> IF u32_ge(d1.reset_count_watchdog, BOOT_SAFE_THRESHOLD)
                              THEN MODE_SAFE ELSE MODE_RECOVERY,
                     data |-> d1]
           [] cause = RESET_CAUSE_BROWN_OUT ->
                [mode |-> MODE_LOW_POWER,
                 data |-> [d EXCEPT !.reset_count_brownout = u32_inc(@)]]
           [] cause = RESET_CAUSE_POWER_ON -> [mode |-> MODE_DETUMBLE, data |-> d]
           [] cause = RESET_CAUSE_SOFTWARE ->
                [mode |-> IF d.requested_mode # MODE_BOOT THEN d.requested_mode
                          ELSE MODE_NOMINAL,
                 data |-> d]
           [] OTHER -> [mode |-> MODE_SAFE, data |-> d]

\* boot_main up to rtos_start(mode), on the record found in .noinit memory:
\* [mode handed to rtos_start, record left, record after the validation step].
boot_main(d, pin, cause) ==
    LET d0  == IF ~boot_validate_persistent(d) THEN boot_init_persistent ELSE d
        d1  == [d0 EXCEPT !.last_reset_cause = cause]
        d2  == boot_increment_counter(d1)
        sel == boot_select_mode(d2, pin, cause)
    IN  [mode |-> sel.mode, data |-> boot_update_persistent(sel.data), checked |-> d0]

(***************************************************************************)
(* Records the .noinit memory can hold                                     *)
(***************************************************************************)
StoredCounts == {u32(0), u32(1), u32(2), u32(3), <<65535, 65535>>}

\* Records written by the boot code: the checksum matches.
ValidRecords ==
    { boot_update_persistent(
        [magic |-> BOOT_COUNTER_MAGIC, boot_count |-> bc,
         reset_count_watchdog |-> wd, reset_count_brownout |-> bo,
         reset_count_software |-> u32(0),
         last_reset_cause |-> lc, requested_mode |-> rm, checksum |-> u32(0)]) :
        bc \in {u32(0), u32(7), <<65535, 65535>>},
        wd \in StoredCounts, bo \in {u32(0), u32(1)},
        lc \in {RESET_CAUSE_UNKNOWN, RESET_CAUSE_WATCHDOG, RESET_CAUSE_BROWN_OUT},
        rm \in {MODE_BOOT, MODE_SAFE, MODE_NOMINAL} }

\* Memory that lost its content: a wrong magic, or a right magic with a
\* checksum that does not match.
GarbageRecords ==
    { [magic |-> m, boot_count |-> u32(9),
       reset_count_watchdog |-> u32(4), reset_count_brownout |-> u32(2),
       reset_count_software |-> u32(1),
       last_reset_cause |-> RESET_CAUSE_BROWN_OUT, requested_mode |-> MODE_NOMINAL,
       checksum |-> u32(0)] : m \in {u32(0), BOOT_COUNTER_MAGIC} }

notBoot == <<modeVars, concVars, tcVars, fdirVars, svcVars>>

BootOff == [phase |-> "reset", n |-> 0, strap |-> FALSE,
            cause |-> RESET_CAUSE_UNKNOWN, mode |-> MODE_BOOT,
            found |-> boot_init_persistent, checked |-> boot_init_persistent]

(***************************************************************************)
(* SpecSelect: boot_select_mode called on a stored record                  *)
(***************************************************************************)
InitSelect ==
    /\ g_boot_data \in ValidRecords
    /\ \E pin \in BOOLEAN, cause \in ResetCauses :
          boot = [BootOff EXCEPT !.phase = "call", !.strap = pin, !.cause = cause,
                                 !.found = g_boot_data, !.checked = g_boot_data]
    /\ IdleMode /\ IdleConc /\ IdleTc /\ IdleFdir /\ IdleSvc

Select ==
    /\ boot.phase = "call"
    /\ LET r == boot_select_mode(g_boot_data, boot.strap, boot.cause)
       IN  /\ g_boot_data' = r.data
           /\ boot' = [boot EXCEPT !.phase = "selected", !.mode = r.mode]
    /\ UNCHANGED notBoot

NextSelect == Select

SpecSelect == InitSelect /\ [][NextSelect]_vars

\* C7 as stated: the rule list without a BROWN_OUT rule, every cause other
\* than WATCHDOG, POWER_ON and SOFTWARE giving SAFE with no counter modified.
C7_AsStated ==
    [][Select =>
        LET d == g_boot_data
            c == boot.cause
            wd1 == [d EXCEPT !.reset_count_watchdog = u32_inc(@)]
        IN  IF boot.strap
            THEN boot'.mode = MODE_SAFE /\ g_boot_data' = d
            ELSE IF u32_ge(d.reset_count_watchdog, 3)
                    \/ d.last_reset_cause = RESET_CAUSE_BROWN_OUT
            THEN boot'.mode = MODE_SAFE /\ g_boot_data' = d
            ELSE IF c = RESET_CAUSE_WATCHDOG
            THEN /\ g_boot_data' = wd1
                 /\ boot'.mode = IF u32_ge(wd1.reset_count_watchdog, 3)
                                 THEN MODE_SAFE ELSE MODE_RECOVERY
            ELSE IF c = RESET_CAUSE_POWER_ON
            THEN boot'.mode = MODE_DETUMBLE /\ g_boot_data' = d
            ELSE IF c = RESET_CAUSE_SOFTWARE
            THEN /\ boot'.mode = IF d.requested_mode # MODE_BOOT
                                 THEN d.requested_mode ELSE MODE_NOMINAL
                 /\ g_boot_data' = d
            ELSE boot'.mode = MODE_SAFE /\ g_boot_data' = d]_vars

\* C7 amended: boot_select_mode(cause) returns the result of the ordered rule
\* list, first match winning: strap asserted gives SAFE; else watchdog counter
\* >= 3 or stored last cause BROWN_OUT gives SAFE; else cause WATCHDOG
\* increments the watchdog counter and gives SAFE if it is now >= 3, otherwise
\* RECOVERY; cause BROWN_OUT increments the brownout counter and gives
\* LOW_POWER; cause POWER_ON gives DETUMBLE; cause SOFTWARE gives
\* requested_mode if it is not BOOT, otherwise NOMINAL; any other cause gives
\* SAFE.  No field is modified by a rule that did not match.
C7_SelectRules ==
    [][Select =>
        LET d == g_boot_data
            c == boot.cause
            wd1 == [d EXCEPT !.reset_count_watchdog = u32_inc(@)]
        IN  IF boot.strap
            THEN boot'.mode = MODE_SAFE /\ g_boot_data' = d
            ELSE IF u32_ge(d.reset_count_watchdog, 3)
                    \/ d.last_reset_cause = RESET_CAUSE_BROWN_OUT
            THEN boot'.mode = MODE_SAFE /\ g_boot_data' = d
            ELSE IF c = RESET_CAUSE_WATCHDOG
            THEN /\ g_boot_data' = wd1
                 /\ boot'.mode = IF u32_ge(wd1.reset_count_watchdog, 3)
                                 THEN MODE_SAFE ELSE MODE_RECOVERY
            ELSE IF c = RESET_CAUSE_BROWN_OUT
            THEN /\ g_boot_data' = [d EXCEPT !.reset_count_brownout = u32_inc(@)]
                 /\ boot'.mode = MODE_LOW_POWER
            ELSE IF c = RESET_CAUSE_POWER_ON
            THEN boot'.mode = MODE_DETUMBLE /\ g_boot_data' = d
            ELSE IF c = RESET_CAUSE_SOFTWARE
            THEN /\ boot'.mode = IF d.requested_mode # MODE_BOOT
                                 THEN d.requested_mode ELSE MODE_NOMINAL
                 /\ g_boot_data' = d
            ELSE boot'.mode = MODE_SAFE /\ g_boot_data' = d]_vars

\* A BROWN_OUT cause reached its own rule: brownout counter 1 -> 2, LOW_POWER.
C7_Witness ==
    /\ boot.phase = "selected" /\ ~boot.strap
    /\ boot.cause = RESET_CAUSE_BROWN_OUT
    /\ boot.found.last_reset_cause = RESET_CAUSE_WATCHDOG
    /\ boot.found.reset_count_watchdog = u32(2)
    /\ boot.found.reset_count_brownout = u32(1)
    /\ g_boot_data.reset_count_brownout = u32(2)
    /\ boot.mode = MODE_LOW_POWER

(***************************************************************************)
(* SpecBoot: boot sequences separated by resets                            *)
(***************************************************************************)
InitBoot ==
    /\ g_boot_data \in ValidRecords \cup GarbageRecords
    /\ boot = BootOff
    /\ IdleMode /\ IdleConc /\ IdleTc /\ IdleFdir /\ IdleSvc

\* boot_main runs to rtos_start with the platform's strap and reset cause.
BootMain(pin, cause) ==
    /\ boot.phase = "reset"
    /\ boot.n < MaxBoots
    /\ LET r == boot_main(g_boot_data, pin, cause)
       IN  /\ g_boot_data' = r.data
           /\ boot' = [phase |-> "handoff", n |-> boot.n + 1, strap |-> pin,
                       cause |-> cause, mode |-> r.mode,
                       found |-> g_boot_data, checked |-> r.checked]
    /\ UNCHANGED notBoot

\* fdir_reset_loop_handled calls boot_clear_counters while the RTOS runs.
ClearCounters ==
    /\ boot.phase \in {"handoff", "running"}
    /\ g_boot_data' = boot_clear_counters(g_boot_data)
    /\ boot' = [BootOff EXCEPT !.phase = "running", !.n = boot.n]
    /\ UNCHANGED notBoot

\* A reset that keeps the .noinit memory.
Reset ==
    /\ boot.phase \in {"handoff", "running"}
    /\ boot' = [BootOff EXCEPT !.n = boot.n]
    /\ UNCHANGED <<g_boot_data, notBoot>>

\* A power cycle after which the .noinit memory holds garbage.
PowerCycle(garbage) ==
    /\ boot.phase \in {"handoff", "running"}
    /\ g_boot_data' = garbage
    /\ boot' = [BootOff EXCEPT !.n = boot.n]
    /\ UNCHANGED notBoot

NextBoot ==
    \/ \E pin \in BOOLEAN, cause \in ResetCauses : BootMain(pin, cause)
    \/ ClearCounters
    \/ Reset
    \/ \E garbage \in GarbageRecords : PowerCycle(garbage)

SpecBoot == InitBoot /\ [][NextBoot]_vars

\* C8 as stated: in the boot sequence with the strap not asserted, the
\* watchdog counter below 3 and reset cause BROWN_OUT, the brownout counter
\* is incremented by one and the selected mode is LOW_POWER.
C8_BrownOutBoot ==
    [][\A pin \in BOOLEAN, cause \in ResetCauses :
          (/\ BootMain(pin, cause)
           /\ ~pin /\ cause = RESET_CAUSE_BROWN_OUT
           /\ ~u32_ge(boot'.checked.reset_count_watchdog, BOOT_SAFE_THRESHOLD)) =>
             /\ g_boot_data'.reset_count_brownout
                    = u32_inc(boot'.checked.reset_count_brownout)
             /\ boot'.mode = MODE_LOW_POWER]_vars

\* C9: at hand-off the record passes validation; a record that failed
\* validation at entry was reinitialised before use, so boot ends with
\* boot_count = 1, requested_mode = BOOT and counters counted from zero; a
\* record that passed keeps its counters apart from this boot's increments
\* (boot_count + 1; watchdog counter + 1 exactly when the WATCHDOG rule ran).
C9_RecordValidAtHandoff ==
    boot.phase = "handoff" =>
        LET f == boot.found
            d == g_boot_data
            base == IF boot_validate_persistent(f) THEN f ELSE boot_init_persistent
            wdRule == /\ ~boot.strap
                      /\ boot.cause = RESET_CAUSE_WATCHDOG
                      /\ ~u32_ge(base.reset_count_watchdog, BOOT_SAFE_THRESHOLD)
        IN  /\ d.magic = BOOT_COUNTER_MAGIC
            /\ d.checksum = boot_compute_checksum(d)
            /\ boot.checked = base
            /\ ~boot_validate_persistent(f) =>
                  /\ d.boot_count = u32(1)
                  /\ d.requested_mode = MODE_BOOT
                  /\ d.reset_count_software = u32(0)
                  /\ d.reset_count_brownout \in {u32(0), u32(1)}
                  /\ d.reset_count_watchdog \in {u32(0), u32(1)}
            /\ d.boot_count = u32_inc(base.boot_count)
            /\ d.reset_count_watchdog = IF wdRule THEN u32_inc(base.reset_count_watchdog)
                                        ELSE base.reset_count_watchdog
            /\ d.reset_count_brownout \in {base.reset_count_brownout,
                                           u32_inc(base.reset_count_brownout)}
            /\ d.reset_count_software = base.reset_count_software
            /\ d.requested_mode = base.requested_mode
            /\ d.last_reset_cause = boot.cause

\* A boot that found garbage and handed off a valid record with boot_count 1.
C9_Witness ==
    /\ boot.phase = "handoff" /\ boot.n = 2
    /\ boot.found \in GarbageRecords
    /\ boot.found.magic = BOOT_COUNTER_MAGIC
    /\ g_boot_data.boot_count = u32(1)
    /\ boot_validate_persistent(g_boot_data)

(***************************************************************************)
(* FDIR engine (flight/fdir/fdir.c)                                        *)
(***************************************************************************)
FAULT_NONE             == 0
FAULT_WATCHDOG_TIMEOUT == 1
FAULT_BROWNOUT         == 2
FAULT_RESET_LOOP       == 3
FAULT_SENSOR_INVALID   == 4
FAULT_ACTUATOR_FAIL    == 5
FAULT_BUS_ERROR        == 6
FAULT_MEMORY_ERROR     == 7
FAULT_COMM_LOSS        == 8
FAULT_POWER_CRITICAL   == 9
FAULT_THERMAL_LIMIT    == 10
FAULT_ATTITUDE_LOST    == 11
FAULT_COUNT            == 12

RECOVERY_NONE         == "RECOVERY_NONE"
RECOVERY_RETRY        == "RECOVERY_RETRY"
RECOVERY_ISOLATE      == "RECOVERY_ISOLATE"
RECOVERY_RESET_SUBSYS == "RECOVERY_RESET_SUBSYS"
RECOVERY_SAFE_MODE    == "RECOVERY_SAFE_MODE"
RECOVERY_SYSTEM_RESET == "RECOVERY_SYSTEM_RESET"
RECOVERY_PAYLOAD_OFF  == "RECOVERY_PAYLOAD_OFF"
RECOVERY_LOAD_SHED    == "RECOVERY_LOAD_SHED"

SUBSYS_BOOT  == 0
SUBSYS_CORE  == 2
SUBSYS_ADCS  == 7
SUBSYS_COUNT == 13

FDIR_RESET_LOOP_THRESHOLD == 3

FdirRule(fault, threshold, action) ==
    [fault |-> fault, threshold_count |-> threshold, action |-> action]

fdir_rules == <<
    FdirRule(FAULT_WATCHDOG_TIMEOUT, 1, RECOVERY_SYSTEM_RESET),
    FdirRule(FAULT_BROWNOUT, 2, RECOVERY_LOAD_SHED),
    FdirRule(FAULT_RESET_LOOP, 3, RECOVERY_SAFE_MODE),
    FdirRule(FAULT_SENSOR_INVALID, 3, RECOVERY_ISOLATE),
    FdirRule(FAULT_ACTUATOR_FAIL, 2, RECOVERY_ISOLATE),
    FdirRule(FAULT_BUS_ERROR, 5, RECOVERY_RESET_SUBSYS),
    FdirRule(FAULT_MEMORY_ERROR, 1, RECOVERY_SAFE_MODE),
    FdirRule(FAULT_COMM_LOSS, 10, RECOVERY_RETRY),
    FdirRule(FAULT_POWER_CRITICAL, 1, RECOVERY_LOAD_SHED),
    FdirRule(FAULT_THERMAL_LIMIT, 1, RECOVERY_PAYLOAD_OFF),
    FdirRule(FAULT_ATTITUDE_LOST, 1, RECOVERY_SAFE_MODE) >>

NUM_RULES == Len(fdir_rules)

\* Index of the first rule for the fault, 0 for NULL.
find_rule(fault) ==
    LET hit == {i \in 1..NUM_RULES : fdir_rules[i].fault = fault}
    IN  IF hit = {} THEN 0 ELSE CHOOSE i \in hit : \A j \in hit : i <= j

PeriodicTask == 0   \* the task that calls fdir_periodic
ReporterTask == 1   \* a task that calls fdir_report_fault and fdir_clear_fault

\* The engine with its surroundings, as the functions below read and write
\* it: g is g_fdir, gm the mode manager state, calls the execute_action
\* invocations of the fdir_periodic call, trace the event_log_write,
\* mode_manager_force and bsp_reset_software calls in order (kept for the
\* calls that can take an action), blocked the tasks waiting in
\* osal_mutex_lock(OSAL_WAIT_FOREVER), halted whether bsp_reset_software
\* has been entered (it does not return).
Stopped(m, self) == self \in m.blocked \/ m.halted

fdir_init ==
    [records |-> [i \in 0..(FAULT_COUNT - 1) |->
                    [subsystem |-> SUBSYS_CORE, timestamp_ms |-> 0,
                     occurrence_count |-> 0, active |-> FALSE,
                     last_action |-> RECOVERY_NONE]],
     isolated_subsys |-> {},
     mutex |-> NoTask,
     initialized |-> TRUE]

fdir_detect_reset_loop(d) ==
    IF d.last_reset_cause = RESET_CAUSE_WATCHDOG
    THEN u32_ge(d.boot_count, FDIR_RESET_LOOP_THRESHOLD)
    ELSE FALSE

EVENT_WARNING  == "EVENT_WARNING"
EVENT_ERROR    == "EVENT_ERROR"
EVENT_CRITICAL == "EVENT_CRITICAL"
SUBSYS_FDIR    == 5

\* An event_log_write call as it appears in the trace.
EventWrite(severity, subsys, event_id) ==
    [call |-> "event_log_write", severity |-> severity, subsys |-> subsys,
     event_id |-> event_id]

fdir_report_fault(m, fault, subsys, self, now_ms) ==
    IF fault >= FAULT_COUNT THEN m
    ELSE IF ~osal_mutex_lock(m.g.mutex, self)
         THEN [m EXCEPT !.blocked = @ \cup {self}]
    ELSE [m EXCEPT !.g.records[fault] =
                       [@ EXCEPT !.subsystem = subsys, !.timestamp_ms = now_ms,
                                 !.occurrence_count = @ + 1, !.active = TRUE],
                   !.trace = Append(@, EventWrite(EVENT_ERROR, subsys, fault))]

fdir_clear_fault(m, fault, self) ==
    IF fault >= FAULT_COUNT THEN m
    ELSE IF ~osal_mutex_lock(m.g.mutex, self)
         THEN [m EXCEPT !.blocked = @ \cup {self}]
    ELSE [m EXCEPT !.g.records[fault].active = FALSE]

fdir_isolate_subsystem(m, subsys, self) ==
    IF subsys >= SUBSYS_COUNT THEN m
    ELSE IF ~osal_mutex_lock(m.g.mutex, self)
         THEN [m EXCEPT !.blocked = @ \cup {self}]
    ELSE [m EXCEPT !.g.isolated_subsys = @ \cup {subsys},
                   !.trace = Append(@, EventWrite(EVENT_WARNING, subsys, 0))]

execute_action(m, action, subsys, self) ==
    CASE action = RECOVERY_ISOLATE -> fdir_isolate_subsystem(m, subsys, self)
      [] action = RECOVERY_SAFE_MODE ->
            [m EXCEPT !.gm = mode_manager_force(@, MODE_SAFE),
                      !.trace = Append(@, [call |-> "mode_manager_force"])]
      [] action = RECOVERY_SYSTEM_RESET ->
            [m EXCEPT !.halted = TRUE,
                      !.trace = Append(@, [call |-> "bsp_reset_software"])]
      [] OTHER -> m

\* The rule loop of fdir_periodic from fault index i on.
RECURSIVE ProcessActiveFaults(_, _, _)
ProcessActiveFaults(m, i, self) ==
    IF i >= FAULT_COUNT \/ Stopped(m, self) THEN m
    ELSE LET rec == m.g.records[i]
             r == find_rule(i)
         IN  IF rec.active /\ r # 0
                /\ rec.occurrence_count >= fdir_rules[IF r = 0 THEN 1 ELSE r].threshold_count
             THEN LET action == fdir_rules[r].action
                      called == [m EXCEPT !.calls = Append(@,
                                    [fault |-> i, action |-> action,
                                     subsys |-> rec.subsystem])]
                      m1 == execute_action(called, action, rec.subsystem, self)
                      m2 == IF Stopped(m1, self) THEN m1
                            ELSE [m1 EXCEPT !.g.records[i].last_action = action]
                  IN  ProcessActiveFaults(m2, i + 1, self)
             ELSE ProcessActiveFaults(m, i + 1, self)

\* fdir_periodic with boot record d, called by task self.
fdir_periodic(m, d, self, now_ms) ==
    IF ~m.g.initialized THEN m
    ELSE IF ~osal_mutex_lock(m.g.mutex, self)
         THEN [m EXCEPT !.blocked = @ \cup {self}]
    ELSE LET m0 == [m EXCEPT !.g.mutex = self]
             m1 == IF fdir_detect_reset_loop(d)
                   THEN fdir_report_fault(m0, FAULT_RESET_LOOP, SUBSYS_BOOT, self, now_ms)
                   ELSE m0
             m2 == ProcessActiveFaults(m1, 0, self)
         IN  IF Stopped(m2, self) THEN m2 ELSE [m2 EXCEPT !.g.mutex = NoTask]

fdir_execute_recovery(m, fault, self) ==
    IF fault >= FAULT_COUNT THEN m
    ELSE IF find_rule(fault) # 0
         THEN execute_action(m, fdir_rules[find_rule(fault)].action,
                             m.g.records[fault].subsystem, self)
    ELSE m

fdir_force_safe_mode(m) ==
    [m EXCEPT !.trace = @ \o << EventWrite(EVENT_CRITICAL, SUBSYS_FDIR, 0),
                                 [call |-> "mode_manager_force"] >>,
              !.gm = mode_manager_force(@, MODE_SAFE)]

(***************************************************************************)
(* SpecFdir: fault reports, fdir_periodic and the mode manager             *)
(***************************************************************************)
MaxOver     == 0   \* bound: reports of one fault kind beyond its threshold
MaxRequests == 1   \* bound: direct calls (mode_manager_request,
                   \* fdir_execute_recovery, fdir_force_safe_mode) in one behaviour

\* The fault kinds reported in one behaviour: one of these sets.
ReportedKindSets ==
    { {FAULT_SENSOR_INVALID, FAULT_MEMORY_ERROR},
      {FAULT_WATCHDOG_TIMEOUT, FAULT_ATTITUDE_LOST},
      {FAULT_BUS_ERROR, FAULT_ATTITUDE_LOST} }
ReportedKinds == UNION ReportedKindSets
ReportedSubsys == {SUBSYS_ADCS, SUBSYS_COUNT}

\* Boot records the engine can find: a first boot after power-on, and a
\* third boot in a row caused by the watchdog.
FdirBootRecords ==
    { boot_main(boot_init_persistent, FALSE, RESET_CAUSE_POWER_ON).data,
      boot_main(boot_main(boot_main(boot_init_persistent, FALSE, RESET_CAUSE_POWER_ON).data,
                          FALSE, RESET_CAUSE_WATCHDOG).data,
                FALSE, RESET_CAUSE_WATCHDOG).data }

notFdir == <<tick, ret, h_entry_tick, h_lastOk, h_before, h_moved, h_clean, h_ran,
             concVars, tcVars, boot, svcVars>>

Machine == [g |-> g_fdir, gm |-> g_mode, calls |-> <<>>, trace |-> <<>>,
            blocked |-> fdir_env.blocked, halted |-> fdir_env.halted]

\* The kinds whose rule is (threshold 1, SafeMode).  fdir_env.fs tells whether
\* a report of one is waiting for its fdir_periodic ("reported") or for the
\* mode_manager_process after it ("armed").
FailSafeKinds == {FAULT_MEMORY_ERROR, FAULT_ATTITUDE_LOST}

Commit(m, fs) ==
    /\ g_fdir' = m.g
    /\ g_mode' = m.gm
    /\ fdir_env' = [calls |-> m.calls, trace |-> m.trace,
                    blocked |-> m.blocked, halted |-> m.halted,
                    fs |-> fs, requests |-> fdir_env.requests, kinds |-> fdir_env.kinds]

InitFdir ==
    /\ tick = 0
    /\ \E initial \in Modes :
          /\ g_mode = mode_manager_init(initial, get_system_time_s(0))
          /\ h_lastOk = initial
    /\ ret = [op |-> "init", status |-> OPENFSW_OK, due |-> FALSE]
    /\ h_entry_tick = 0 /\ h_before = MODE_BOOT
    /\ h_moved = FALSE /\ h_clean = TRUE /\ h_ran = TRUE
    /\ g_fdir = fdir_init
    /\ \E kinds \in ReportedKindSets :
          fdir_env = [calls |-> <<>>, trace |-> <<>>,
                      blocked |-> {}, halted |-> FALSE, fs |-> "idle",
                      requests |-> 0, kinds |-> kinds]
    /\ g_boot_data \in FdirBootRecords
    /\ boot = BootOff
    /\ IdleConc /\ IdleTc /\ IdleSvc

FdirReportFault(fault, subsys) ==
    /\ ~fdir_env.halted /\ ReporterTask \notin fdir_env.blocked
    /\ g_fdir.records[fault].occurrence_count
           < fdir_rules[find_rule(fault)].threshold_count + MaxOver
    /\ fault \in fdir_env.kinds
    /\ LET m == fdir_report_fault(Machine, fault, subsys,
                                  ReporterTask, osal_get_time_ms(tick))
       IN  Commit([m EXCEPT !.trace = <<>>],
                  IF fault \in FailSafeKinds /\ ReporterTask \notin m.blocked
                  THEN "reported" ELSE fdir_env.fs)
    /\ UNCHANGED <<g_boot_data, notFdir>>

FdirClearFault(fault) ==
    /\ ~fdir_env.halted /\ ReporterTask \notin fdir_env.blocked
    /\ g_fdir.records[fault].active
    /\ LET m == fdir_clear_fault(Machine, fault, ReporterTask)
       IN  Commit(m, IF \E k \in FailSafeKinds : m.g.records[k].active
                     THEN fdir_env.fs ELSE "idle")
    /\ UNCHANGED <<g_boot_data, notFdir>>

FdirPeriodic ==
    /\ ~fdir_env.halted /\ PeriodicTask \notin fdir_env.blocked
    /\ LET m == fdir_periodic(Machine, g_boot_data, PeriodicTask, osal_get_time_ms(tick))
       IN  Commit(m, IF fdir_env.fs = "reported" THEN "armed" ELSE fdir_env.fs)
    /\ UNCHANGED <<g_boot_data, notFdir>>

\* fdir_execute_recovery(fault), called by the reporting task.
FdirExecuteRecovery(fault) ==
    /\ ~fdir_env.halted /\ ReporterTask \notin fdir_env.blocked
    /\ fault \in fdir_env.kinds
    /\ fdir_env.requests < MaxRequests
    /\ LET m == fdir_execute_recovery(Machine, fault, ReporterTask)
       IN  /\ g_fdir' = m.g
           /\ g_mode' = m.gm
           /\ fdir_env' = [fdir_env EXCEPT !.calls = m.calls, !.trace = m.trace,
                                           !.blocked = m.blocked, !.halted = m.halted,
                                           !.requests = @ + 1]
    /\ UNCHANGED <<g_boot_data, notFdir>>

\* fdir_force_safe_mode(reason).
FdirForceSafeMode ==
    /\ ~fdir_env.halted
    /\ fdir_env.requests < MaxRequests
    /\ LET m == fdir_force_safe_mode(Machine)
       IN  /\ g_mode' = m.gm
           /\ fdir_env' = [fdir_env EXCEPT !.calls = m.calls, !.trace = m.trace,
                                           !.requests = @ + 1]
    /\ UNCHANGED <<g_fdir, g_boot_data, notFdir>>

FdirModeRequest(mode) ==
    /\ ~fdir_env.halted
    /\ fdir_env.requests < MaxRequests
    /\ g_mode' = mode_manager_request(g_mode, mode)
    /\ fdir_env' = [fdir_env EXCEPT !.requests = @ + 1, !.calls = <<>>,
                                    !.trace = <<>>]
    /\ UNCHANGED <<g_fdir, g_boot_data, notFdir>>

FdirModeProcess ==
    /\ ~fdir_env.halted
    /\ g_mode' = mode_manager_process(g_mode, get_system_time_s(tick))
    /\ fdir_env' = [fdir_env EXCEPT !.fs = IF @ = "armed" THEN "idle" ELSE @,
                                    !.calls = <<>>, !.trace = <<>>]
    /\ UNCHANGED <<g_fdir, g_boot_data, notFdir>>

NextFdir ==
    \/ \E fault \in ReportedKinds, subsys \in ReportedSubsys : FdirReportFault(fault, subsys)
    \/ \E fault \in ReportedKinds : FdirClearFault(fault)
    \/ FdirPeriodic
    \/ \E fault \in ReportedKinds : FdirExecuteRecovery(fault)
    \/ FdirForceSafeMode
    \/ \E mode \in Modes : FdirModeRequest(mode)
    \/ FdirModeProcess

SpecFdir == InitFdir /\ [][NextFdir]_vars

\* C6 as stated: after a MemoryError or AttitudeLost report, the next
\* fdir_periodic call followed by the next mode_manager_process call leaves
\* current = SAFE, from every current mode.
C6_FailToSafe ==
    [][(fdir_env.fs = "armed" /\ FdirModeProcess) => g_mode'.current = MODE_SAFE]_vars

\* C10 as stated: for every fault kind k with a rule, active and reported at
\* least threshold_k times, the next fdir_periodic call invokes the mapped
\* action exactly once, for the recorded subsystem, and sets last_action of
\* k to it; an Isolate action marks the subsystem isolated.
C10_ActionAtThreshold ==
    [][FdirPeriodic =>
        \A k \in 0..(FAULT_COUNT - 1) :
            (/\ find_rule(k) # 0
             /\ g_fdir.records[k].active
             /\ g_fdir.records[k].occurrence_count
                    >= fdir_rules[IF find_rule(k) = 0 THEN 1 ELSE find_rule(k)].threshold_count) =>
                LET action == fdir_rules[find_rule(k)].action
                    mine == {i \in 1..Len(fdir_env'.calls) : fdir_env'.calls[i].fault = k}
                IN  /\ Cardinality(mine) = 1
                    /\ \A i \in mine :
                          /\ fdir_env'.calls[i].action = action
                          /\ fdir_env'.calls[i].subsys = g_fdir.records[k].subsystem
                    /\ g_fdir'.records[k].last_action = action
                    /\ (action = RECOVERY_ISOLATE
                        /\ g_fdir.records[k].subsystem < SUBSYS_COUNT) =>
                          g_fdir.records[k].subsystem \in g_fdir'.isolated_subsys]_vars

\* C11 as stated: when the reset-loop condition holds, an fdir_periodic call
\* reports ResetLoop against the boot subsystem (count + 1, active), then
\* evaluates the rules of the active faults and returns with the mutex free.
C11_ResetLoopReported ==
    [][(FdirPeriodic /\ fdir_detect_reset_loop(g_boot_data)) =>
          /\ g_fdir'.records[FAULT_RESET_LOOP].occurrence_count
                 = g_fdir.records[FAULT_RESET_LOOP].occurrence_count + 1
          /\ g_fdir'.records[FAULT_RESET_LOOP].active
          /\ g_fdir'.records[FAULT_RESET_LOOP].subsystem = SUBSYS_BOOT
          /\ PeriodicTask \notin fdir_env'.blocked
          /\ g_fdir'.mutex = NoTask]_vars

\* The FDIR calls that can take a SafeMode or SystemReset action.
FdirActingStep ==
    \/ FdirPeriodic
    \/ \E fault \in ReportedKinds : FdirExecuteRecovery(fault)
    \/ FdirForceSafeMode

\* C12 as stated: in every FDIR call that takes a SafeMode or SystemReset
\* action, an event_log_write call precedes the mode_manager_force(SAFE) or
\* bsp_reset_software call.
C12_EventBeforeSevereAction ==
    [][FdirActingStep =>
        \A i \in 1..Len(fdir_env'.trace) :
            fdir_env'.trace[i].call \in {"mode_manager_force", "bsp_reset_software"} =>
                \E j \in 1..(i - 1) : fdir_env'.trace[j].call = "event_log_write"]_vars

(***************************************************************************)
(* Telecommand dispatcher properties                                       *)
(***************************************************************************)
TcHandlerNames ==
    {"tc_handler_ping", "tc_handler_connection_test", "tc_handler_mode_change",
     "tc_handler_reset", "tc_handler_enable_hk", "tc_handler_disable_hk",
     "tc_handler_time_sync"}

\* The handlers invoked by the telecommand_process call that ret describes.
HandlerCalls(r) == {i \in 1..Len(r.calls) : r.calls[i].call \in TcHandlerNames}

\* Appending one history record with the packet's identity and a status.
HistoryAppended(g, g2, pkt, status) ==
    /\ g2.history[g.history_idx] =
           [sequence |-> pkt.sequence, service_type |-> pkt.service_type,
            service_subtype |-> pkt.service_subtype, status |-> status]
    /\ \A i \in 0..(TC_HISTORY_SIZE - 1) :
           i # g.history_idx => g2.history[i] = g.history[i]
    /\ g2.history_idx = (g.history_idx + 1) % TC_HISTORY_SIZE

\* C13: in mode SAFE, a valid telecommand whose handler needs a level other
\* than None and whose pair is not on the allow-list is rejected with
\* RejectedAuth, the rejected counter + 1, the accepted counter unchanged and
\* no handler invoked; a pair on the allow-list or a handler with level None
\* is not rejected.
C13_SafeModeFilter ==
    [][(/\ ret'.op = "tc" /\ TcProcess(ret'.pkt)
        /\ g_mode.current = MODE_SAFE
        /\ telecommand_validate(g_telecommand, ret'.pkt)) =>
            LET pkt == ret'.pkt
                def == g_telecommand.handlers[
                           find_handler(g_telecommand, pkt.service_type, pkt.service_subtype)]
                listed == \E i \in 1..Len(g_telecommand.safe_list) :
                              g_telecommand.safe_list[i]
                                  = <<pkt.service_type, pkt.service_subtype>>
            IN  IF def.auth_level # TC_AUTH_NONE /\ ~listed
                THEN /\ ret'.status = TC_STATUS_REJECTED_AUTH
                     /\ g_telecommand'.rejected_count = g_telecommand.rejected_count + 1
                     /\ g_telecommand'.accepted_count = g_telecommand.accepted_count
                     /\ HandlerCalls(ret') = {}
                     /\ g_mode' = g_mode
                ELSE /\ ret'.status # TC_STATUS_REJECTED_AUTH
                     /\ g_telecommand'.accepted_count = g_telecommand.accepted_count + 1]_vars

\* A Reset telecommand (8,4) was rejected in SAFE after an EnableHK (3,5)
\* had been let through.
C13_Witness ==
    /\ ret.op = "tc" /\ ret.mode = MODE_SAFE
    /\ ret.pkt.service_type = PUS_SVC_FUNCTION_MGMT /\ ret.pkt.service_subtype = 4
    /\ ret.pkt.crc_match
    /\ ret.status = TC_STATUS_REJECTED_AUTH
    /\ g_telecommand.rejected_count = 1 /\ g_telecommand.accepted_count = 1
    /\ g_telecommand.history[0].service_type = PUS_SVC_HOUSEKEEPING

\* C14: a packet that fails validation (CRC mismatch, version not 0, type not
\* TC, or no handler for its pair) returns RejectedInvalid, the rejected
\* counter + 1, exactly one history record with status RejectedInvalid, the
\* accepted and executed counters unchanged, no handler invoked.
C14_InvalidRejected ==
    [][(/\ ret'.op = "tc" /\ TcProcess(ret'.pkt)
        /\ LET pkt == ret'.pkt
           IN  \/ ~pkt.crc_match
               \/ pkt.version # 0
               \/ pkt.type # CCSDS_TYPE_TC
               \/ \A i \in 1..Len(g_telecommand.handlers) :
                      <<g_telecommand.handlers[i].service_type,
                        g_telecommand.handlers[i].service_subtype>>
                          # <<pkt.service_type, pkt.service_subtype>>) =>
            /\ ret'.status = TC_STATUS_REJECTED_INVALID
            /\ g_telecommand'.rejected_count = g_telecommand.rejected_count + 1
            /\ HistoryAppended(g_telecommand, g_telecommand', ret'.pkt,
                               TC_STATUS_REJECTED_INVALID)
            /\ g_telecommand'.accepted_count = g_telecommand.accepted_count
            /\ g_telecommand'.executed_count = g_telecommand.executed_count
            /\ HandlerCalls(ret') = {}
            /\ g_mode' = g_mode]_vars

\* A packet with a wrong type was rejected after one with a wrong version.
C14_Witness ==
    /\ ret.op = "tc" /\ ret.status = TC_STATUS_REJECTED_INVALID
    /\ ret.pkt.type # CCSDS_TYPE_TC /\ ret.pkt.version = CCSDS_VERSION
    /\ g_telecommand.rejected_count = 2
    /\ g_telecommand.history_idx = 2
    /\ g_telecommand.history[1].status = TC_STATUS_REJECTED_INVALID
    /\ g_telecommand.accepted_count = 0 /\ g_telecommand.executed_count = 0


\* A request-verification TM (an acknowledgment) for a command sequence number.
IsAck(pkt, sequence) ==
    /\ "service_type" \in DOMAIN pkt
    /\ pkt.service_type = PUS_SVC_REQUEST_VERIFICATION
    /\ pkt.sequence = sequence

\* The slots of queue state g that hold an acknowledgment for sequence.
AckSlots(g, sequence) ==
    {i \in TmSlots : g.queue[i].valid /\ IsAck(g.queue[i].packet, sequence)}

TcRejected == {TC_STATUS_REJECTED_INVALID, TC_STATUS_REJECTED_AUTH}

\* C15: every telecommand that telecommand_process rejects (RejectedInvalid or
\* RejectedAuth) causes exactly one acknowledgment TM for its sequence number
\* to be enqueued on the telemetry queue (here: with room in the queue).
C15_RejectedAcked ==
    [][(/\ ret'.op = "tc" /\ TcProcess(ret'.pkt)
        /\ ret'.status \in TcRejected
        /\ g_telemetry.queue_count < TM_QUEUE_SIZE) =>
          /\ Len(tm_sent') = Len(tm_sent) + 1
          /\ IsAck(tm_sent'[Len(tm_sent')], ret'.pkt.sequence)
          /\ g_telemetry'.packets_queued = g_telemetry.packets_queued + 1
          /\ Cardinality(AckSlots(g_telemetry', ret'.pkt.sequence)) =
                Cardinality(AckSlots(g_telemetry, ret'.pkt.sequence)) + 1]_vars



\* The positions in the call sequence of ret of the acknowledgments sent with
\* one of the subtypes.
AckCalls(r, subtypes) ==
    {i \in 1..Len(r.calls) :
        /\ r.calls[i].call = "telecommand_send_ack"
        /\ r.calls[i].tm.sequence = r.pkt.sequence
        /\ r.calls[i].tm.service_subtype \in subtypes}

\* The command mutex is released when call i of ret is made: the mutex is held
\* when the sequence starts, and the last lock or unlock before i is an unlock.
MutexReleasedAt(r, i) ==
    \E u \in 1..(i - 1) :
        /\ r.calls[u].call = "osal_mutex_unlock"
        /\ \A k \in (u + 1)..(i - 1) : r.calls[k].call # "osal_mutex_lock"

\* What C16 states apart from storage on the queue: one acknowledgment with
\* subtype 1 before the handler, the handler once with the mutex released, one
\* acknowledgment with subtype 7 (Executed) or 8 (otherwise) after it, the
\* handler's status returned and recorded, executed + 1 only for Executed.
AcceptedSequence(g, g2, gm, r) ==
    LET pkt    == r.pkt
        def    == g.handlers[find_handler(g, pkt.service_type, pkt.service_subtype)]
        result == handler_status(def.handler, pkt.data, gm)
        second == IF result = TC_STATUS_EXECUTED THEN 7 ELSE 8
    IN  /\ Cardinality(HandlerCalls(r)) = 1
        /\ Cardinality(AckCalls(r, {1})) = 1
        /\ Cardinality(AckCalls(r, {7, 8})) = 1
        /\ \A h \in HandlerCalls(r) :
              /\ r.calls[h].call = def.handler
              /\ MutexReleasedAt(r, h)
              /\ \A a \in AckCalls(r, {1}) : a < h
              /\ \A b \in AckCalls(r, {7, 8}) :
                    b > h /\ r.calls[b].tm.service_subtype = second
        /\ r.status = result
        /\ HistoryAppended(g, g2, pkt, result)
        /\ g2.accepted_count = g.accepted_count + 1
        /\ g2.executed_count =
              g.executed_count + (IF result = TC_STATUS_EXECUTED THEN 1 ELSE 0)

TcAccepted(g, gm, pkt) ==
    /\ telecommand_validate(g, pkt)
    /\ telecommand_authorize(g, pkt,
           g.handlers[find_handler(g, pkt.service_type, pkt.service_subtype)].auth_level,
           gm.current)


(***************************************************************************)
(* SpecAck: the dispatcher in front of a telemetry queue with a backlog    *)
(***************************************************************************)
MaxDownlink == 1   \* bound: packets taken off the queue in one behaviour

\* CRC-valid telecommands for the default handlers, and one that fails its CRC.
AckPackets ==
    [version : {CCSDS_VERSION}, type : {CCSDS_TYPE_TC}, crc_match : {TRUE},
     service_type : {PUS_SVC_FUNCTION_MGMT}, service_subtype : {1},
     sequence : {5},
     data : {<<>>, <<MODE_NOMINAL>>, <<MODE_COUNT>>}]
    \cup
    [version : {CCSDS_VERSION}, type : {CCSDS_TYPE_TC}, crc_match : BOOLEAN,
     service_type : {PUS_SVC_TEST}, service_subtype : {1},
     sequence : {6},
     data : {<<>>}]

\* n packets that were queued and not yet downlinked.
TmBacklog(n) == [i \in 1..n |-> [id |-> i]]

\* The telemetry queue when the dispatcher starts: as telemetry_init left it,
\* or with a backlog queued since.
AckTelemetryStates ==
    {telemetry_init,
     QueueAll(telemetry_init, TmBacklog(TM_QUEUE_SIZE - 1), TM_PRIORITY_HIGH),
     QueueAll(telemetry_init, TmBacklog(TM_QUEUE_SIZE), TM_PRIORITY_HIGH),
     QueueAll(telemetry_init, TmBacklog(TM_QUEUE_SIZE), TM_PRIORITY_NORMAL)}

InitAck ==
    /\ tick = 0
    /\ \E initial \in {MODE_SAFE, MODE_NOMINAL} :
          /\ g_mode = mode_manager_init(initial, get_system_time_s(0))
          /\ h_lastOk = initial
    /\ ret = [op |-> "init", status |-> OPENFSW_OK, due |-> FALSE]
    /\ h_entry_tick = 0 /\ h_before = MODE_BOOT
    /\ h_moved = FALSE /\ h_clean = TRUE /\ h_ran = TRUE
    /\ g_telecommand = telecommand_init
    /\ tm_sent = <<>>
    /\ g_telemetry \in AckTelemetryStates
    /\ tm_env = <<>> /\ IdleReg
    /\ IdleConc /\ IdleBoot /\ IdleFdir /\ IdleSvc

\* The downlink takes one packet: telemetry_dequeue_packet.
AckDownlink ==
    LET r == telemetry_dequeue_packet(g_telemetry)
    IN  /\ g_telemetry.packets_sent < MaxDownlink
        /\ g_telemetry' = r.g
        /\ ret' = [op |-> "dequeue", status |-> r.status, due |-> FALSE,
                   packet |-> r.packet]
        /\ UNCHANGED <<g_mode, g_telecommand, tm_sent, tm_env, notTc>>

NextAck ==
    \/ \E pkt \in AckPackets : TcProcess(pkt)
    \/ AckDownlink

SpecAck == InitAck /\ [][NextAck]_vars

\* A packet offered at this priority is stored: the queue has room, or holds
\* a valid packet of lower priority that a High or Critical packet displaces.
TmAdmits(g, priority) ==
    \/ g.queue_count < TM_QUEUE_SIZE
    \/ /\ priority >= TM_PRIORITY_HIGH
       /\ \E i \in TmSlots : g.queue[i].valid /\ g.queue[i].priority < priority

handler_response(handler, data) ==
    IF handler = "tc_handler_ping" THEN <<"P", "O", "N", "G">>
    ELSE IF handler = "tc_handler_connection_test" /\ Len(data) <= 200 THEN data
    ELSE <<>>

\* The valid slots of queue state g.
ValidSlots(g) == {i \in TmSlots : g.queue[i].valid}

\* C17: processing a CRC-valid Ping telecommand (17,1) in mode NOMINAL with
\* the telemetry queue empty leaves exactly three packets on the queue: the
\* accepted acknowledgment, then the executed acknowledgment, and one response
\* TM whose data field is the four bytes 'PONG'.
C17_PingResponse ==
    [][(/\ ret'.op = "tc" /\ TcProcess(ret'.pkt)
        /\ ret'.pkt.service_type = PUS_SVC_TEST /\ ret'.pkt.service_subtype = 1
        /\ ccsds_validate_tc(ret'.pkt)
        /\ g_mode.current = MODE_NOMINAL
        /\ g_telemetry.queue_count = 0 /\ ValidSlots(g_telemetry) = {}) =>
          /\ Cardinality(ValidSlots(g_telemetry')) = 3
          /\ g_telemetry'.queue_count = 3
          /\ g_telemetry'.queue[g_telemetry.queue_tail].packet
                = AckTm(ret'.pkt.sequence, TC_STATUS_ACCEPTED)
          /\ \E i \in ValidSlots(g_telemetry') :
                g_telemetry'.queue[i].packet = AckTm(ret'.pkt.sequence, TC_STATUS_EXECUTED)
          /\ \E i \in ValidSlots(g_telemetry') :
                /\ "data" \in DOMAIN g_telemetry'.queue[i].packet
                /\ g_telemetry'.queue[i].packet.data
                      = handler_response("tc_handler_ping", ret'.pkt.data)]_vars


(***************************************************************************)
(* SpecReg: telecommand_register called from concurrent tasks              *)
(***************************************************************************)
MaxRegCalls == 3   \* bound: telecommand_register calls in one behaviour

RegTasks == {1, 2}

OPENFSW_ERROR_NO_MEMORY == "OPENFSW_ERROR_NO_MEMORY"
OPENFSW_ERROR_BUSY      == "OPENFSW_ERROR_BUSY"

\* Definitions offered for registration: two new pairs and the ping pair,
\* which telecommand_init has registered.
RegDefs ==
    {TcDef(20, 1, TC_AUTH_BASIC, "tc_handler_user_1"),
     TcDef(20, 2, TC_AUTH_BASIC, "tc_handler_user_2"),
     TcDef(PUS_SVC_TEST, 1, TC_AUTH_NONE, "tc_handler_ping")}

\* The registry after telecommand_init and n further telecommand_register
\* calls for the new pairs (128, 1) .. (128, n), each of which appended.
RegistryWith(n) ==
    [telecommand_init EXCEPT
        !.handlers = @ \o [i \in 1..n |-> TcDef(128, i, TC_AUTH_BASIC, "tc_handler_user")]]

\* The append of telecommand_register (memcpy to handlers[handler_count], then
\* handler_count++): the set of registries it can leave.  With handler_count
\* = TC_MAX_HANDLERS the copy goes past the array, onto handler_count and the
\* bytes after it: the count ends as 65, or as the definition's first byte + 1.
register_append(g, def) ==
    IF Len(g.handlers) < TC_MAX_HANDLERS
    THEN {[g EXCEPT !.handlers = Append(@, def)]}
    ELSE {[g EXCEPT !.handlers = Append(@, def)],
          [g EXCEPT !.handlers = SubSeq(@ \o [i \in 1..256 |-> def], 1,
                                        (def.service_type + 1) % 256)]}

RegIdle == [pc |-> "idle", def |-> TcDef(0, 0, TC_AUTH_NONE, "none"),
             status |-> OPENFSW_OK, full |-> FALSE, dup |-> FALSE]

InitReg ==
    /\ \E count \in {Len(telecommand_init.handlers)}
                        \cup ((TC_MAX_HANDLERS - 2)..TC_MAX_HANDLERS) :
          g_telecommand = RegistryWith(count - Len(telecommand_init.handlers))
    /\ reg_tasks = [mutex |-> NoTask, calls |-> 0, t |-> [self \in RegTasks |-> RegIdle]]
    /\ tm_sent = <<>>
    /\ IdleTm /\ IdleMode /\ IdleConc /\ IdleBoot /\ IdleFdir /\ IdleSvc

notReg == <<modeVars, concVars, tm_sent, g_telemetry, tm_env, bootVars, fdirVars, svcVars>>

\* telecommand_register(def) up to the lock: the capacity check is made on
\* handler_count before the mutex is taken.  full and dup record what the
\* registry was when the call was made.
RegCall(self, def) ==
    LET full == Len(g_telecommand.handlers) >= TC_MAX_HANDLERS
        dup  == find_handler(g_telecommand, def.service_type, def.service_subtype) # 0
    IN  /\ reg_tasks.t[self].pc = "idle"
        /\ reg_tasks.calls < MaxRegCalls
        /\ reg_tasks' = [reg_tasks EXCEPT
               !.calls = @ + 1,
               !.t[self] = [pc |-> IF full THEN "idle" ELSE "lock", def |-> def,
                            status |-> IF full THEN OPENFSW_ERROR_NO_MEMORY ELSE OPENFSW_OK,
                            full |-> full, dup |-> dup]]
        /\ UNCHANGED <<g_telecommand, notReg>>

\* osal_mutex_lock(g_telecommand.mutex, OSAL_WAIT_FOREVER).
RegLock(self) ==
    /\ reg_tasks.t[self].pc = "lock"
    /\ osal_mutex_lock(reg_tasks.mutex, self)
    /\ reg_tasks' = [reg_tasks EXCEPT !.mutex = self, !.t[self].pc = "locked"]
    /\ UNCHANGED <<g_telecommand, notReg>>

\* The locked part: duplicate check, append, unlock, return.
RegAppend(self) ==
    LET def == reg_tasks.t[self].def
        dup == find_handler(g_telecommand, def.service_type, def.service_subtype) # 0
    IN  /\ reg_tasks.t[self].pc = "locked"
        /\ reg_tasks.mutex = self
        /\ IF dup THEN g_telecommand' = g_telecommand
                  ELSE g_telecommand' \in register_append(g_telecommand, def)
        /\ reg_tasks' = [reg_tasks EXCEPT
               !.mutex = NoTask,
               !.t[self].pc = "idle",
               !.t[self].status = IF dup THEN OPENFSW_ERROR_BUSY ELSE OPENFSW_OK]
        /\ UNCHANGED notReg

NextReg ==
    \/ \E self \in RegTasks, def \in RegDefs : RegCall(self, def)
    \/ \E self \in RegTasks : RegLock(self)
    \/ \E self \in RegTasks : RegAppend(self)

SpecReg == InitReg /\ [][NextReg]_vars

\* C18: after any interleaving of telecommand_register calls, concurrent ones
\* included, the registry holds at most 64 entries and no two entries with
\* the same (service_type, service_subtype), and a finished call for a pair
\* that was registered when it was made returned Busy or NoMemory, one made
\* on a full table NoMemory.
C18_RegistryBounded ==
    /\ Len(g_telecommand.handlers) <= TC_MAX_HANDLERS
    /\ \A i, j \in 1..Len(g_telecommand.handlers) :
          (/\ g_telecommand.handlers[i].service_type = g_telecommand.handlers[j].service_type
           /\ g_telecommand.handlers[i].service_subtype
                 = g_telecommand.handlers[j].service_subtype) => i = j
    /\ \A self \in RegTasks :
          reg_tasks.t[self].pc = "idle" =>
              /\ reg_tasks.t[self].full => reg_tasks.t[self].status = OPENFSW_ERROR_NO_MEMORY
              /\ reg_tasks.t[self].dup =>
                    reg_tasks.t[self].status \in {OPENFSW_ERROR_BUSY, OPENFSW_ERROR_NO_MEMORY}


(***************************************************************************)
(* SpecTm: telemetry_queue_packet and telemetry_dequeue_packet calls on a  *)
(* queue that earlier enqueues have filled                                 *)
(***************************************************************************)
MaxTmOps == 4   \* bound: queue calls in one behaviour, after the prefill

\* The priorities of the packets queued before the behaviour starts, in the
\* order of their enqueue calls (no dequeue in between).
TmPrefills ==
    {<<>>,
     [i \in 1..(TM_QUEUE_SIZE - 2) |->
         IF i % 2 = 1 THEN TM_PRIORITY_HIGH ELSE TM_PRIORITY_NORMAL],
     [i \in 1..TM_QUEUE_SIZE |-> TM_PRIORITY_NORMAL],
     [i \in 1..TM_QUEUE_SIZE |-> IF i = 1 THEN TM_PRIORITY_CRITICAL ELSE TM_PRIORITY_NORMAL],
     [i \in 1..TM_QUEUE_SIZE |-> i % (TM_PRIORITY_CRITICAL + 1)]}

\* The queue after telemetry_queue_packet calls for packets k, k + 1, ... with
\* the priorities prios[k], prios[k + 1], ...
RECURSIVE QueueEach(_, _, _)
QueueEach(g, prios, k) ==
    IF k > Len(prios) THEN g
    ELSE QueueEach(telemetry_queue_packet(g, [id |-> k], prios[k]).g, prios, k + 1)

InitTm ==
    /\ \E prios \in TmPrefills :
          /\ g_telemetry = QueueEach(telemetry_init, prios, 1)
          /\ tm_env = [enq |-> Len(prios), ops |-> 0, last |-> [op |-> "init"],
                        pure |-> TRUE]
    /\ g_telecommand = <<>> /\ tm_sent = <<>> /\ IdleReg
    /\ IdleMode /\ IdleConc /\ IdleBoot /\ IdleFdir /\ IdleSvc

notTm == <<modeVars, concVars, g_telecommand, tm_sent, reg_tasks, bootVars, fdirVars, svcVars>>

\* telemetry_queue_packet(pkt, priority) for the next packet.  pure records
\* that the calls so far were enqueues without a preemption drop followed by
\* dequeues only.
TmEnqueue(priority) ==
    LET pkt == [id |-> tm_env.enq + 1]
        r   == telemetry_queue_packet(g_telemetry, pkt, priority)
    IN  /\ tm_env.ops < MaxTmOps
        /\ g_telemetry' = r.g
        /\ tm_env' = [enq |-> tm_env.enq + 1, ops |-> tm_env.ops + 1,
                      last |-> [op |-> "enqueue", status |-> r.status,
                                packet |-> pkt, priority |-> priority],
                      pure |-> /\ tm_env.pure
                               /\ tm_env.last.op # "dequeue"
                               /\ ~(/\ g_telemetry.queue_count >= TM_QUEUE_SIZE
                                    /\ r.status = OPENFSW_OK)]
        /\ UNCHANGED notTm

\* telemetry_dequeue_packet(&pkt).
TmDequeue ==
    LET r == telemetry_dequeue_packet(g_telemetry)
    IN  /\ tm_env.ops < MaxTmOps
        /\ g_telemetry' = r.g
        /\ tm_env' = [tm_env EXCEPT !.ops = @ + 1,
                                    !.last = [op |-> "dequeue", status |-> r.status,
                                              packet |-> r.packet]]
        /\ UNCHANGED notTm

NextTm ==
    \/ \E priority \in TmPriorities : TmEnqueue(priority)
    \/ TmDequeue

SpecTm == InitTm /\ [][NextTm]_vars

\* The packets held in valid slots of queue state g.
QueuedPackets(g) == {g.queue[i].packet : i \in ValidSlots(g)}

\* The valid slots of g whose priority is below priority.
LowerSlots(g, priority) == {i \in ValidSlots(g) : g.queue[i].priority < priority}

\* C19: with the queue holding 16 packets, telemetry_queue_packet with
\* priority High or Critical removes exactly one queued packet, the one in
\* the first valid slot (in index order) of strictly lower priority, stores
\* the incoming packet, keeps the count at 16 and returns Ok, and every other
\* queued packet stays on the queue; if there is no packet of strictly lower
\* priority, or the incoming priority is Low or Normal, it returns Overflow,
\* queue_overflows + 1, and the queue contents are unchanged.
C19_PreemptOne ==
    [][(/\ tm_env'.last.op = "enqueue" /\ TmEnqueue(tm_env'.last.priority)
        /\ g_telemetry.queue_count = TM_QUEUE_SIZE
        /\ ValidSlots(g_telemetry) = TmSlots) =>
          LET priority == tm_env'.last.priority
              lower    == LowerSlots(g_telemetry, priority)
          IN  IF priority >= TM_PRIORITY_HIGH /\ lower # {}
              THEN LET first == CHOOSE i \in lower : \A j \in lower : i <= j
                   IN  /\ tm_env'.last.status = OPENFSW_OK
                       /\ g_telemetry'.queue_count = TM_QUEUE_SIZE
                       /\ QueuedPackets(g_telemetry') =
                             (QueuedPackets(g_telemetry) \ {g_telemetry.queue[first].packet})
                                \cup {tm_env'.last.packet}
              ELSE /\ tm_env'.last.status = OPENFSW_ERROR_OVERFLOW
                   /\ g_telemetry'.queue_overflows = g_telemetry.queue_overflows + 1
                   /\ g_telemetry'.queue = g_telemetry.queue
                   /\ g_telemetry'.queue_count = g_telemetry.queue_count]_vars


\* C20: telemetry_dequeue_packet on a queue that holds packets returns the
\* packet of the highest priority queued and, among several of that priority,
\* the one enqueued most recently (packets are numbered in enqueue order),
\* marks its slot invalid and decrements the count by one; on an empty queue
\* it returns NotFound and changes nothing.
C20_DequeueOrder ==
    [][(tm_env'.last.op = "dequeue" /\ TmDequeue) =>
          IF ValidSlots(g_telemetry) # {}
          THEN \E s \in ValidSlots(g_telemetry) :
                  /\ tm_env'.last.status = OPENFSW_OK
                  /\ tm_env'.last.packet = g_telemetry.queue[s].packet
                  /\ \A i \in ValidSlots(g_telemetry) :
                        \/ g_telemetry.queue[i].priority < g_telemetry.queue[s].priority
                        \/ /\ g_telemetry.queue[i].priority = g_telemetry.queue[s].priority
                           /\ g_telemetry.queue[i].packet.id <= g_telemetry.queue[s].packet.id
                  /\ ValidSlots(g_telemetry') = ValidSlots(g_telemetry) \ {s}
                  /\ g_telemetry'.queue_count = g_telemetry.queue_count - 1
          ELSE /\ tm_env'.last.status = OPENFSW_ERROR_NOT_FOUND
               /\ g_telemetry' = g_telemetry]_vars


\* C21: after enqueues without a preemption drop, followed by dequeues only,
\* each dequeue returns a packet of the highest priority still queued and,
\* among the packets of that priority, the one enqueued first.
C21_PriorityThenFifo ==
    [][(/\ tm_env'.last.op = "dequeue" /\ TmDequeue
        /\ tm_env.pure
        /\ ValidSlots(g_telemetry) # {}) =>
          \E s \in ValidSlots(g_telemetry) :
              /\ tm_env'.last.status = OPENFSW_OK
              /\ tm_env'.last.packet = g_telemetry.queue[s].packet
              /\ \A i \in ValidSlots(g_telemetry) :
                    \/ g_telemetry.queue[i].priority < g_telemetry.queue[s].priority
                    \/ /\ g_telemetry.queue[i].priority = g_telemetry.queue[s].priority
                       /\ g_telemetry.queue[i].packet.id >= g_telemetry.queue[s].packet.id]_vars


\* C22: in every telemetry_queue_packet call, each packet that leaves the
\* queue (displaced or overwritten) is matched by an increment of
\* queue_overflows, and a call that does not store its packet returns an
\* error; telemetry_dequeue_packet removes no packet but the one it returns.
C22_NoSilentDrop ==
    [][/\ (tm_env'.last.op = "enqueue" /\ TmEnqueue(tm_env'.last.priority)) =>
             /\ Cardinality(QueuedPackets(g_telemetry) \ QueuedPackets(g_telemetry'))
                   <= g_telemetry'.queue_overflows - g_telemetry.queue_overflows
             /\ tm_env'.last.packet \notin QueuedPackets(g_telemetry') =>
                   tm_env'.last.status # OPENFSW_OK
       /\ (tm_env'.last.op = "dequeue" /\ TmDequeue) =>
             /\ QueuedPackets(g_telemetry) \ QueuedPackets(g_telemetry')
                   \subseteq {tm_env'.last.packet}
             /\ g_telemetry'.queue_overflows = g_telemetry.queue_overflows]_vars


(***************************************************************************)
(* Housekeeping generation (flight/comms/telemetry.c)                      *)
(***************************************************************************)
\* The number of bytes a generator writes: the standard generators copy a
\* packed housekeeping structure; "gen_empty" stands for one that sets *len = 0.
generator_len(generator) == IF generator = "gen_empty" THEN 0 ELSE 12

telemetry_enable(g, packet_id) ==
    LET idx == find_definition(g, packet_id)
    IN  IF idx = 0 THEN [status |-> OPENFSW_ERROR_NOT_FOUND, g |-> g]
        ELSE [status |-> OPENFSW_OK, g |-> [g EXCEPT !.definitions[idx].enabled = TRUE]]

telemetry_disable(g, packet_id) ==
    LET idx == find_definition(g, packet_id)
    IN  IF idx = 0 THEN [status |-> OPENFSW_ERROR_NOT_FOUND, g |-> g]
        ELSE [status |-> OPENFSW_OK, g |-> [g EXCEPT !.definitions[idx].enabled = FALSE]]

telemetry_set_period(g, packet_id, period_ms) ==
    LET idx == find_definition(g, packet_id)
    IN  IF period_ms < TM_MIN_PERIOD THEN [status |-> OPENFSW_ERROR_INVALID_PARAM, g |-> g]
        ELSE IF idx = 0 THEN [status |-> OPENFSW_ERROR_NOT_FOUND, g |-> g]
        ELSE [status |-> OPENFSW_OK,
              g |-> [g EXCEPT !.definitions[idx].period_ms = period_ms]]

\* A pipeline as one task sees it: the state, the holder of g_telemetry.mutex,
\* the calls made so far, and whether the task is waiting for the mutex.
\* generate_hk_packet(def) for definition i, called by task self.
generate_hk_packet(m, i, self) ==
    LET def == m.g.definitions[i]
        m1  == [m EXCEPT !.calls = Append(@, [call |-> def.generator, def |-> i])]
        m2  == [m1 EXCEPT !.calls = Append(@, [call |-> "telemetry_queue_packet", def |-> i,
                                               apid |-> def.apid,
                                               priority |-> def.priority])]
        pkt == [id |-> def.packet_id, apid |-> def.apid,
                service_type |-> PUS_SVC_HOUSEKEEPING, service_subtype |-> 25]
    IN  IF generator_len(def.generator) = 0 THEN m1
        ELSE IF ~osal_mutex_lock(m2.mutex, self) THEN [m2 EXCEPT !.blocked = TRUE]
        ELSE [m2 EXCEPT !.g = [telemetry_queue_packet(m2.g, pkt, def.priority).g
                                  EXCEPT !.packets_generated = @ + 1]]

\* The loop of telemetry_periodic from definition i on, at uptime now.
RECURSIVE periodic_from(_, _, _, _)
periodic_from(m, i, now, self) ==
    IF m.blocked \/ i > Len(m.g.definitions) THEN m
    ELSE LET def == m.g.definitions[i]
         IN  IF ~def.enabled \/ def.type # TM_TYPE_HOUSEKEEPING
                \/ (now - def.last_sent_ms) < def.period_ms
             THEN periodic_from(m, i + 1, now, self)
             ELSE LET m1 == generate_hk_packet(m, i, self)
                  IN  IF m1.blocked THEN m1
                      ELSE periodic_from([m1 EXCEPT !.g.definitions[i].last_sent_ms = now],
                                         i + 1, now, self)

\* telemetry_periodic() at uptime now, called by task self with the mutex
\* free: lock, loop, unlock.
telemetry_periodic(g, now, self) ==
    LET m == periodic_from([g |-> g, mutex |-> self, calls |-> <<>>, blocked |-> FALSE],
                           1, now, self)
    IN  IF m.blocked THEN m ELSE [m EXCEPT !.mutex = NoTask]

(***************************************************************************)
(* SpecHk: telemetry_periodic as a 200 ms scheduler job, with definitions  *)
(* enabled, disabled, retimed and registered in between                    *)
(***************************************************************************)
HkStep     == 500    \* bound: uptime advance between calls, ms
MaxHkTime  == 5000   \* bound: last uptime explored, ms
MaxHkCalls == 2      \* bound: configuration calls in one behaviour

HkTask == 1

\* Definitions registered after telemetry_init: one with a generator that
\* produces nothing, one that is not housekeeping.
HkExtraDefs ==
    {TmDef(5, APID_SYSTEM, TM_TYPE_HOUSEKEEPING, TM_PRIORITY_LOW, HkStep, "gen_empty"),
     TmDef(6, APID_SYSTEM, TM_TYPE_EVENT, TM_PRIORITY_HIGH, HkStep, "telemetry_gen_system_hk")}

InitHk ==
    /\ g_telemetry = telemetry_init
    /\ tm_env = [now |-> 0, mutex |-> NoTask, blocked |-> FALSE, calls |-> <<>>,
                 ops |-> 0, last |-> "init"]
    /\ g_telecommand = <<>> /\ tm_sent = <<>> /\ IdleReg
    /\ IdleMode /\ IdleConc /\ IdleBoot /\ IdleFdir /\ IdleSvc

\* time_get_uptime_ms() advances.
HkAdvance ==
    /\ tm_env.now + HkStep <= MaxHkTime
    /\ tm_env' = [tm_env EXCEPT !.now = @ + HkStep, !.last = "advance"]
    /\ UNCHANGED <<g_telemetry, notTm>>

HkPeriodic ==
    LET m == telemetry_periodic(g_telemetry, tm_env.now, HkTask)
    IN  /\ osal_mutex_lock(tm_env.mutex, HkTask)
        /\ g_telemetry' = m.g
        /\ tm_env' = [tm_env EXCEPT !.mutex = m.mutex, !.blocked = m.blocked,
                                    !.calls = m.calls, !.last = "periodic"]
        /\ UNCHANGED notTm

\* Configuration calls from another task; each waits while the mutex is held.
HkEnable(packet_id) ==
    /\ tm_env.ops < MaxHkCalls
    /\ osal_mutex_lock(tm_env.mutex, NoTask)
    /\ g_telemetry' = telemetry_enable(g_telemetry, packet_id).g
    /\ tm_env' = [tm_env EXCEPT !.ops = @ + 1, !.last = "enable"]
    /\ UNCHANGED notTm

HkDisable(packet_id) ==
    /\ tm_env.ops < MaxHkCalls
    /\ osal_mutex_lock(tm_env.mutex, NoTask)
    /\ g_telemetry' = telemetry_disable(g_telemetry, packet_id).g
    /\ tm_env' = [tm_env EXCEPT !.ops = @ + 1, !.last = "disable"]
    /\ UNCHANGED notTm

HkSetPeriod(packet_id, period_ms) ==
    /\ tm_env.ops < MaxHkCalls
    /\ osal_mutex_lock(tm_env.mutex, NoTask)
    /\ g_telemetry' = telemetry_set_period(g_telemetry, packet_id, period_ms).g
    /\ tm_env' = [tm_env EXCEPT !.ops = @ + 1, !.last = "set_period"]
    /\ UNCHANGED notTm

HkRegister(def) ==
    /\ tm_env.ops < MaxHkCalls
    /\ osal_mutex_lock(tm_env.mutex, NoTask)
    /\ g_telemetry' = telemetry_register(g_telemetry, def).g
    /\ tm_env' = [tm_env EXCEPT !.ops = @ + 1, !.last = "register"]
    /\ UNCHANGED notTm

NextHk ==
    \/ HkAdvance
    \/ HkPeriodic
    \/ \E packet_id \in 1..4 : HkEnable(packet_id)
    \/ \E packet_id \in 1..4 : HkDisable(packet_id)
    \/ \E packet_id \in 1..4, period_ms \in {TM_MIN_PERIOD, 4 * HkStep} :
          HkSetPeriod(packet_id, period_ms)
    \/ \E def \in HkExtraDefs : HkRegister(def)

SpecHk == InitHk /\ [][NextHk]_vars

\* Definition i of g is due at uptime now.
HkDue(g, i, now) ==
    /\ g.definitions[i].enabled
    /\ g.definitions[i].type = TM_TYPE_HOUSEKEEPING
    /\ now - g.definitions[i].last_sent_ms >= g.definitions[i].period_ms

\* The positions in calls of the calls of one name made for definition i.
CallsFor(calls, names, i) ==
    {k \in 1..Len(calls) : calls[k].call \in names /\ calls[k].def = i}

HkGenerators ==
    {"telemetry_gen_system_hk", "telemetry_gen_power_hk", "telemetry_gen_adcs_hk",
     "telemetry_gen_comms_hk", "gen_empty"}

\* C23: every telemetry_periodic call returns, and on return each enabled
\* housekeeping definition with now - last_sent >= period has had its
\* generator called once, one packet offered to the queue at its priority,
\* and last_sent = now; every other definition has produced nothing and keeps
\* its last_sent.
C23_PeriodicGenerates ==
    [][(tm_env'.last = "periodic" /\ HkPeriodic) =>
          /\ ~tm_env'.blocked /\ tm_env'.mutex = NoTask
          /\ \A i \in 1..Len(g_telemetry.definitions) :
                IF HkDue(g_telemetry, i, tm_env.now)
                THEN /\ Cardinality(CallsFor(tm_env'.calls, HkGenerators, i)) = 1
                     /\ generator_len(g_telemetry.definitions[i].generator) > 0 =>
                           /\ Cardinality(CallsFor(tm_env'.calls,
                                                   {"telemetry_queue_packet"}, i)) = 1
                           /\ \A k \in CallsFor(tm_env'.calls, {"telemetry_queue_packet"}, i) :
                                 tm_env'.calls[k].priority
                                    = g_telemetry.definitions[i].priority
                     /\ g_telemetry'.definitions[i].last_sent_ms = tm_env.now
                ELSE /\ CallsFor(tm_env'.calls, HkGenerators \cup {"telemetry_queue_packet"}, i)
                           = {}
                     /\ g_telemetry'.definitions[i].last_sent_ms
                           = g_telemetry.definitions[i].last_sent_ms]_vars


(***************************************************************************)
(* Cooperative scheduler (flight/core/scheduler/scheduler.c).  now_ms and  *)
(* next_run_ms are uint32_t, kept as pairs <<high, low>> of 16-bit halves. *)
(* OPENFSW_SCHED_MAX_JOBS comes from config.h; the table size is a bound   *)
(* of the model.                                                           *)
(***************************************************************************)
OPENFSW_SCHED_MAX_JOBS == 3

NullFn == "NULL"

u32_add(x, n) ==
    LET lo == x[2] + n
    IN  IF lo < 65536 THEN <<x[1], lo>> ELSE <<(x[1] + 1) % 65536, lo - 65536>>
u32_carry(x, n) == x[1] = 65535 /\ x[2] + n >= 65536
u32_geq(x, y) == x[1] > y[1] \/ (x[1] = y[1] /\ x[2] >= y[2])

FreeJob == [fn |-> NullFn, period_ms |-> 0, next_run_ms |-> u32(0), used |-> FALSE]

scheduler_reset ==
    [now_ms |-> u32(0), jobs |-> [i \in 1 .. OPENFSW_SCHED_MAX_JOBS |-> FreeJob]]

\* Lowest unused slot, or 0 when the table is full.
RECURSIVE free_job(_, _)
free_job(g, i) ==
    IF i > OPENFSW_SCHED_MAX_JOBS THEN 0
    ELSE IF ~g.jobs[i].used THEN i
    ELSE free_job(g, i + 1)

scheduler_register_periodic(g, fn, period_ms) ==
    IF fn = NullFn \/ period_ms = 0 THEN [ok |-> FALSE, g |-> g, slot |-> 0]
    ELSE LET i == free_job(g, 1)
         IN  IF i = 0 THEN [ok |-> FALSE, g |-> g, slot |-> 0]
             ELSE [ok |-> TRUE, slot |-> i,
                   g |-> [g EXCEPT !.jobs[i] =
                            [fn |-> fn, period_ms |-> period_ms,
                             next_run_ms |-> u32_add(g.now_ms, period_ms),
                             used |-> TRUE]]]

scheduler_init(mode) ==
    scheduler_register_periodic(scheduler_reset, "health_periodic",
                                IF mode = MODE_SAFE THEN 500 ELSE 100).g

\* scheduler_step loop variant with a strict comparison: a job runs only
\* once now_ms has passed next_run_ms.
step_from_Strict(g, calls, i) ==
    [g |-> [g EXCEPT !.jobs =
              [k \in 1 .. OPENFSW_SCHED_MAX_JOBS |->
                  IF g.jobs[k].used /\ g.now_ms # g.jobs[k].next_run_ms
                                    /\ u32_geq(g.now_ms, g.jobs[k].next_run_ms)
                  THEN [g.jobs[k] EXCEPT !.next_run_ms =
                                            u32_add(@, g.jobs[k].period_ms)]
                  ELSE g.jobs[k]]],
     calls |-> SelectSeq([k \in 1 .. OPENFSW_SCHED_MAX_JOBS |-> k],
                         LAMBDA k : /\ g.jobs[k].used
                                    /\ g.now_ms # g.jobs[k].next_run_ms
                                    /\ u32_geq(g.now_ms, g.jobs[k].next_run_ms))]

\* scheduler_step loop variant that visits the slots from the highest index
\* down.
step_from_Descending(g, calls, i) ==
    [g |-> [g EXCEPT !.jobs =
              [k \in 1 .. OPENFSW_SCHED_MAX_JOBS |->
                  IF g.jobs[k].used /\ u32_geq(g.now_ms, g.jobs[k].next_run_ms)
                  THEN [g.jobs[k] EXCEPT !.next_run_ms =
                                            u32_add(@, g.jobs[k].period_ms)]
                  ELSE g.jobs[k]]],
     calls |-> SelectSeq([k \in 1 .. OPENFSW_SCHED_MAX_JOBS |->
                             OPENFSW_SCHED_MAX_JOBS + 1 - k],
                         LAMBDA k : /\ g.jobs[k].used
                                    /\ u32_geq(g.now_ms, g.jobs[k].next_run_ms))]

\* The loop of scheduler_step from slot i on; calls lists the slots whose
\* function was invoked, in order.
RECURSIVE step_from(_, _, _)
step_from(g, calls, i) ==
    IF i > OPENFSW_SCHED_MAX_JOBS THEN [g |-> g, calls |-> calls]
    ELSE IF ~g.jobs[i].used THEN step_from(g, calls, i + 1)
    ELSE IF u32_geq(g.now_ms, g.jobs[i].next_run_ms)
         THEN step_from([g EXCEPT !.jobs[i].next_run_ms =
                                     u32_add(@, g.jobs[i].period_ms)],
                        Append(calls, i), i + 1)
         ELSE step_from(g, calls, i + 1)

scheduler_step(g, elapsed_ms) ==
    step_from([g EXCEPT !.now_ms = u32_add(@, elapsed_ms)], <<>>, 1)

(***************************************************************************)
(* SpecSched: register_periodic and step calls on the job table.  The      *)
(* environment records, per slot, the scheduler time of registration and   *)
(* of the last invocation, the set of elapsed values used so far, and      *)
(* whether an addition on now_ms or next_run_ms has wrapped.               *)
(***************************************************************************)
MaxSchedSteps == 6
MaxSchedRegs  == 2
SchedElapsed  == {0, 10, 25}
SchedPeriods  == {0, 20, 50}
SchedFns      == {NullFn, "telemetry_periodic"}
NeverRun      == <<>>

SchedEnv(elapsed, reg_at, last_run) ==
    [steps |-> 0, regs |-> 0, elapsed |-> elapsed, wrapped |-> FALSE,
     reg_at |-> reg_at, last_run |-> last_run, calls |-> <<>>, last |-> "init"]

\* scheduler_init(MODE_NOMINAL) followed by 429496719 calls scheduler_step(10):
\* now_ms = 4294967190, health_periodic last ran at 4294967100 and is due
\* again at 4294967200.
SchedLate ==
    [now_ms |-> <<65535, 65430>>,
     jobs |-> [i \in 1 .. OPENFSW_SCHED_MAX_JOBS |->
                 IF i = 1 THEN [fn |-> "health_periodic", period_ms |-> 100,
                                next_run_ms |-> <<65535, 65440>>, used |-> TRUE]
                 ELSE FreeJob]]

InitSched ==
    /\ \/ /\ \E mode \in {MODE_SAFE, MODE_NOMINAL} : g_sched = scheduler_init(mode)
          /\ svc_env = SchedEnv({}, [i \in 1 .. OPENFSW_SCHED_MAX_JOBS |-> u32(0)],
                                [i \in 1 .. OPENFSW_SCHED_MAX_JOBS |-> NeverRun])
       \/ /\ g_sched = SchedLate
          /\ svc_env = SchedEnv({10}, [i \in 1 .. OPENFSW_SCHED_MAX_JOBS |-> u32(0)],
                                [i \in 1 .. OPENFSW_SCHED_MAX_JOBS |->
                                    IF i = 1 THEN <<65535, 65340>> ELSE NeverRun])
    /\ g_ccsds = <<>> /\ g_log = <<>>
    /\ IdleMode /\ IdleConc /\ IdleTc /\ IdleBoot /\ IdleFdir

notSched == <<modeVars, concVars, tcVars, bootVars, fdirVars, g_ccsds, g_log>>

SchedRegister(fn, period_ms) ==
    /\ svc_env.regs < MaxSchedRegs
    /\ LET r == scheduler_register_periodic(g_sched, fn, period_ms)
       IN  /\ g_sched' = r.g
           /\ svc_env' = [svc_env EXCEPT
                 !.regs = @ + 1,
                 !.wrapped = @ \/ (r.ok /\ u32_carry(g_sched.now_ms, period_ms)),
                 !.reg_at = IF r.ok THEN [@ EXCEPT ![r.slot] = g_sched.now_ms] ELSE @,
                 !.calls = <<>>,
                 !.last = "register"]
    /\ UNCHANGED notSched

SchedStep(elapsed_ms) ==
    /\ svc_env.steps < MaxSchedSteps
    /\ LET r == scheduler_step(g_sched, elapsed_ms)
       IN  /\ g_sched' = r.g
           /\ svc_env' = [svc_env EXCEPT
                 !.steps = @ + 1,
                 !.elapsed = @ \cup {elapsed_ms},
                 !.wrapped = \/ @
                             \/ u32_carry(g_sched.now_ms, elapsed_ms)
                             \/ \E k \in 1 .. Len(r.calls) :
                                   u32_carry(g_sched.jobs[r.calls[k]].next_run_ms,
                                             g_sched.jobs[r.calls[k]].period_ms),
                 !.last_run = [i \in 1 .. OPENFSW_SCHED_MAX_JOBS |->
                                 IF \E k \in 1 .. Len(r.calls) : r.calls[k] = i
                                 THEN r.g.now_ms ELSE @[i]],
                 !.calls = r.calls,
                 !.last = "step"]
    /\ UNCHANGED notSched

NextSched ==
    \/ \E fn \in SchedFns, period_ms \in SchedPeriods : SchedRegister(fn, period_ms)
    \/ \E elapsed_ms \in SchedElapsed : SchedStep(elapsed_ms)

SpecSched == InitSched /\ [][NextSched]_vars

\* Slot i was invoked by the step just taken.
Invoked(i) == \E k \in 1 .. Len(svc_env'.calls) : svc_env'.calls[k] = i

\* The invocation of slot i in the step just taken came exactly one period
\* after its previous one, or after its registration if it is the first.
OnTime(i) ==
    g_sched'.now_ms =
        u32_add(IF svc_env.last_run[i] = NeverRun THEN svc_env.reg_at[i]
                ELSE svc_env.last_run[i],
                g_sched.jobs[i].period_ms)

\* C24 as stated: under every sequence of scheduler_step(elapsed) calls a job
\* registered with period p at scheduler time t is first invoked at t + p and
\* then at gaps of exactly p of scheduler time.
C24_AsStated ==
    [][(svc_env'.last = "step" /\ \E e \in SchedElapsed : SchedStep(e)) =>
          \A i \in 1 .. OPENFSW_SCHED_MAX_JOBS : Invoked(i) => OnTime(i)]_vars

\* C24 (amended): when every scheduler_step call so far, this one included,
\* passed the same elapsed e > 0, e divides the job's period p, and no
\* addition on now_ms or next_run_ms has wrapped around 2^32, an invocation
\* of the job happens at scheduler time t + p if it is the first and exactly
\* p after the previous one otherwise.
C24_ExactPeriod ==
    [][(svc_env'.last = "step" /\ \E e \in SchedElapsed : SchedStep(e)) =>
          \A i \in 1 .. OPENFSW_SCHED_MAX_JOBS :
             (/\ Invoked(i)
              /\ ~svc_env'.wrapped
              /\ \E e \in SchedElapsed \ {0} :
                    /\ svc_env'.elapsed = {e}
                    /\ g_sched.jobs[i].period_ms % e = 0) => OnTime(i)]_vars

\* A job registered after start has been invoked twice under a constant
\* elapsed that divides its period.
C24_Witness ==
    /\ svc_env.last = "step"
    /\ ~svc_env.wrapped
    /\ svc_env.elapsed = {10}
    /\ \E i \in 2 .. OPENFSW_SCHED_MAX_JOBS :
          /\ g_sched.jobs[i].used
          /\ g_sched.jobs[i].period_ms = 20
          /\ svc_env.reg_at[i] = u32(10)
          /\ svc_env.last_run[i] = u32(50)
          /\ \E k \in 1 .. Len(svc_env.calls) : svc_env.calls[k] = i


(***************************************************************************)
(* CCSDS sequence counters (flight/comms/ccsds/ccsds.c).  g_ccsds is a     *)
(* zero-initialised static: until ccsds_init runs, and after a ccsds_init  *)
(* whose osal_mutex_create failed, g_ccsds.mutex is the null handle, on    *)
(* which osal_mutex_lock and osal_mutex_unlock return InvalidParam at once.*)
(* rtos_start (rtos_freertos.c 40-81) does not call ccsds_init.            *)
(***************************************************************************)
APID_MAX   == 2047
NullMutex  == -2
SeqModulus == 16384     \* (seq + 1) & 0x3FFF

SeqApids == {APID_SYSTEM, APID_MAX}

ccsds_zero ==
    [sequence_counts |-> [a \in SeqApids |-> 0], mutex |-> NullMutex,
     initialized |-> FALSE]

\* created: whether osal_mutex_create found a free slot.
ccsds_init(created) ==
    [sequence_counts |-> [a \in SeqApids |-> 0],
     mutex |-> IF created THEN NoTask ELSE NullMutex,
     initialized |-> TRUE]

\* ccsds_next_sequence run to completion by one caller.
ccsds_next_sequence(g, apid) ==
    IF apid > APID_MAX THEN [seq |-> 0, g |-> g]
    ELSE [seq |-> g.sequence_counts[apid],
          g |-> [g EXCEPT !.sequence_counts[apid] = (@ + 1) % SeqModulus]]

\* Line 88: the value stored back.
ccsds_store(seq) == (seq + 1) % SeqModulus

(***************************************************************************)
(* SpecSeq: tasks call ccsds_next_sequence concurrently; each call is the  *)
(* steps lock, read, write, unlock of lines 86-89.  The environment keeps  *)
(* each task's position and locals and, per APID, the values returned so   *)
(* far in order of return.                                                 *)
(***************************************************************************)
MaxSeqCalls == 4
SeqTasks    == {1, 2}
SeqStart    == {0, 16382}    \* calls already made on every APID

SeqIdle == [pc |-> "idle", apid |-> 0, seq |-> 0]

InitSeq ==
    /\ \E g \in {ccsds_zero, ccsds_init(TRUE), ccsds_init(FALSE)}, n \in SeqStart :
          /\ g_ccsds = [g EXCEPT !.sequence_counts = [a \in SeqApids |-> n]]
          /\ svc_env = [tasks |-> [t \in SeqTasks |-> SeqIdle],
                        returned |-> [a \in SeqApids |-> <<>>],
                        start |-> n, calls |-> 0,
                        last |-> [op |-> "init", apid |-> 0, seq |-> 0]]
    /\ g_sched = <<>> /\ g_log = <<>>
    /\ IdleMode /\ IdleConc /\ IdleTc /\ IdleBoot /\ IdleFdir

notSeq == <<modeVars, concVars, tcVars, bootVars, fdirVars, g_sched, g_log>>

\* Entry: the range check of lines 82-84.
SeqCall(self, apid) ==
    /\ svc_env.tasks[self].pc = "idle"
    /\ svc_env.calls < MaxSeqCalls
    /\ svc_env' = [svc_env EXCEPT
          !.calls = @ + 1,
          !.tasks[self] = IF apid > APID_MAX THEN SeqIdle
                          ELSE [pc |-> "lock", apid |-> apid, seq |-> 0],
          !.last = IF apid > APID_MAX
                   THEN [op |-> "return", apid |-> apid, seq |-> 0]
                   ELSE [op |-> "call", apid |-> apid, seq |-> 0]]
    /\ UNCHANGED <<g_ccsds, notSeq>>

\* Line 86: osal_mutex_lock(g_ccsds.mutex, OSAL_WAIT_FOREVER), result ignored.
SeqLock(self) ==
    /\ svc_env.tasks[self].pc = "lock"
    /\ g_ccsds.mutex = NullMutex \/ osal_mutex_lock(g_ccsds.mutex, self)
    /\ g_ccsds' = [g_ccsds EXCEPT !.mutex = IF @ = NullMutex THEN @ ELSE self]
    /\ svc_env' = [svc_env EXCEPT !.tasks[self].pc = "read",
                                  !.last = [op |-> "lock", apid |-> 0, seq |-> 0]]
    /\ UNCHANGED notSeq

\* Line 87: seq = g_ccsds.sequence_counts[apid].
SeqRead(self) ==
    /\ svc_env.tasks[self].pc = "read"
    /\ svc_env' = [svc_env EXCEPT
          !.tasks[self].pc = "write",
          !.tasks[self].seq = g_ccsds.sequence_counts[svc_env.tasks[self].apid],
          !.last = [op |-> "read", apid |-> 0, seq |-> 0]]
    /\ UNCHANGED <<g_ccsds, notSeq>>

\* Line 88: g_ccsds.sequence_counts[apid] = (seq + 1) & 0x3FFF.
SeqWrite(self) ==
    /\ svc_env.tasks[self].pc = "write"
    /\ g_ccsds' = [g_ccsds EXCEPT !.sequence_counts[svc_env.tasks[self].apid] =
                                     ccsds_store(svc_env.tasks[self].seq)]
    /\ svc_env' = [svc_env EXCEPT !.tasks[self].pc = "unlock",
                                  !.last = [op |-> "write", apid |-> 0, seq |-> 0]]
    /\ UNCHANGED notSeq

\* Lines 89-91: osal_mutex_unlock and return seq.
SeqReturn(self) ==
    /\ svc_env.tasks[self].pc = "unlock"
    /\ g_ccsds' = [g_ccsds EXCEPT !.mutex = IF @ = NullMutex THEN @ ELSE NoTask]
    /\ svc_env' = [svc_env EXCEPT
          !.tasks[self] = SeqIdle,
          !.returned[svc_env.tasks[self].apid] = Append(@, svc_env.tasks[self].seq),
          !.last = [op |-> "return", apid |-> svc_env.tasks[self].apid,
                    seq |-> svc_env.tasks[self].seq]]
    /\ UNCHANGED notSeq

NextSeq ==
    \/ \E self \in SeqTasks, apid \in SeqApids \cup {APID_MAX + 1} : SeqCall(self, apid)
    \/ \E self \in SeqTasks : SeqLock(self)
    \/ \E self \in SeqTasks : SeqRead(self)
    \/ \E self \in SeqTasks : SeqWrite(self)
    \/ \E self \in SeqTasks : SeqReturn(self)

SpecSeq == InitSeq /\ [][NextSeq]_vars

\* C25: per APID the returned values are pairwise distinct under every
\* interleaving, the counter of an APID with no call in progress equals the
\* number of calls made on it modulo 2^14 (so calls for other APIDs leave it
\* alone and the k-th call returns k mod 2^14), and a call with an APID above
\* 2047 returns 0.
C25_SequencePerApid ==
    /\ \A a \in SeqApids :
          /\ \A i, j \in 1 .. Len(svc_env.returned[a]) :
                i # j => svc_env.returned[a][i] # svc_env.returned[a][j]
          /\ (\A t \in SeqTasks : svc_env.tasks[t].pc = "idle"
                                  \/ svc_env.tasks[t].apid # a) =>
                g_ccsds.sequence_counts[a] =
                    (svc_env.start + Len(svc_env.returned[a])) % SeqModulus
    /\ (svc_env.last.op = "return" /\ svc_env.last.apid > APID_MAX) =>
          svc_env.last.seq = 0


(***************************************************************************)
(* CCSDS telemetry codec (flight/comms/ccsds/ccsds.c).  A packet is the    *)
(* struct ccsds_tm_packet_t with data cut to data_length bytes; bytes are  *)
(* 0..255, uint16_t fields 0..65535, coarse_time a pair <<high, low>>.     *)
(* ccsds_finalize_tm copies the packed header structs with memcpy, so the  *)
(* bytes it sums are in the byte order of the build: little-endian on the  *)
(* STM32F4 target (drivers/bsp_stm32f4.c), big-endian on other hosts.      *)
(***************************************************************************)
CCSDS_TYPE_TM          == 0
CCSDS_SEC_HDR_PRESENT  == 1
CCSDS_SEQ_STANDALONE   == 3
CCSDS_MAX_PACKET_SIZE  == 4096
CCSDS_PRIMARY_HDR_SIZE == 6
CCSDS_SEC_HDR_SIZE     == 10
CCSDS_MAX_DATA == CCSDS_MAX_PACKET_SIZE - CCSDS_PRIMARY_HDR_SIZE - CCSDS_SEC_HDR_SIZE - 2

\* crc_table[i + 1] is the C array's crc_table[i].
crc_table ==
    <<0,  4129,  8258, 12387, 16516, 20645, 24774, 28903,
       33032, 37161, 41290, 45419, 49548, 53677, 57806, 61935,
        4657,   528, 12915,  8786, 21173, 17044, 29431, 25302,
       37689, 33560, 45947, 41818, 54205, 50076, 62463, 58334,
        9314, 13379,  1056,  5121, 25830, 29895, 17572, 21637,
       42346, 46411, 34088, 38153, 58862, 62927, 50604, 54669,
       13907,  9842,  5649,  1584, 30423, 26358, 22165, 18100,
       46939, 42874, 38681, 34616, 63455, 59390, 55197, 51132,
       18628, 22757, 26758, 30887,  2112,  6241, 10242, 14371,
       51660, 55789, 59790, 63919, 35144, 39273, 43274, 47403,
       23285, 19156, 31415, 27286,  6769,  2640, 14899, 10770,
       56317, 52188, 64447, 60318, 39801, 35672, 47931, 43802,
       27814, 31879, 19684, 23749, 11298, 15363,  3168,  7233,
       60846, 64911, 52716, 56781, 44330, 48395, 36200, 40265,
       32407, 28342, 24277, 20212, 15891, 11826,  7761,  3696,
       65439, 61374, 57309, 53244, 48923, 44858, 40793, 36728,
       37256, 33193, 45514, 41451, 53516, 49453, 61774, 57711,
        4224,   161, 12482,  8419, 20484, 16421, 28742, 24679,
       33721, 37784, 41979, 46042, 49981, 54044, 58239, 62302,
         689,  4752,  8947, 13010, 16949, 21012, 25207, 29270,
       46570, 42443, 38312, 34185, 62830, 58703, 54572, 50445,
       13538,  9411,  5280,  1153, 29798, 25671, 21540, 17413,
       42971, 47098, 34713, 38840, 59231, 63358, 50973, 55100,
        9939, 14066,  1681,  5808, 26199, 30326, 17941, 22068,
       55628, 51565, 63758, 59695, 39368, 35305, 47498, 43435,
       22596, 18533, 30726, 26663,  6336,  2273, 14466, 10403,
       52093, 56156, 60223, 64286, 35833, 39896, 43963, 48026,
       19061, 23124, 27191, 31254,  2801,  6864, 10931, 14994,
       64814, 60687, 56684, 52557, 48554, 44427, 40424, 36297,
       31782, 27655, 23652, 19525, 15522, 11395,  7392,  3265,
       61215, 65342, 53085, 57212, 44955, 49082, 36825, 40952,
       28183, 32310, 20053, 24180, 11923, 16050,  3793,  7920>>

\* ccsds_calc_crc: crc = (crc << 8) ^ crc_table[((crc >> 8) ^ data[i]) & 0xFF]
\* on a uint16_t, from 0xFFFF.
RECURSIVE crc_from(_, _, _)
crc_from(crc, data, i) ==
    IF i > Len(data) \/ crc \notin 0 .. 65535 THEN crc
    ELSE crc_from(xor_bits((crc % 256) * 256,
                           crc_table[xor_bits(crc \div 256, data[i], 8) + 1], 16),
                  data, i + 1)

ccsds_calc_crc(data) == crc_from(65535, data, 1)

\* time_get_timestamp as seen by the header: seconds and subseconds & 0xFFFF.
ccsds_build_tm_header(g, apid, service_type, service_subtype, ts) ==
    LET s == ccsds_next_sequence(g, apid)
    IN  [g |-> s.g,
         pkt |-> [primary |-> [packet_id |-> CCSDS_VERSION * 8192
                                             + CCSDS_TYPE_TM * 4096
                                             + CCSDS_SEC_HDR_PRESENT * 2048
                                             + (apid % 2048),
                               sequence_ctrl |-> CCSDS_SEQ_STANDALONE * 16384 + s.seq,
                               packet_length |-> 0],
                  secondary |-> [coarse_time |-> ts.seconds,
                                 fine_time |-> ts.subseconds % 65536,
                                 service_type |-> service_type,
                                 service_subtype |-> service_subtype,
                                 destination_id |-> 0, spare |-> 0],
                  data |-> <<>>, crc |-> 0, data_length |-> 0]]

ccsds_tm_set_data(pkt, data) ==
    IF Len(data) > CCSDS_MAX_DATA THEN [status |-> OPENFSW_ERROR_OVERFLOW, pkt |-> pkt]
    ELSE [status |-> OPENFSW_OK,
          pkt |-> [pkt EXCEPT !.data = data, !.data_length = Len(data)]]

\* The bytes of a uint16_t and of a uint32_t in memory.
mem16(v, endian) ==
    IF endian = "little" THEN <<v % 256, v \div 256>> ELSE <<v \div 256, v % 256>>
mem32(x, endian) ==
    IF endian = "little" THEN mem16(x[2], endian) \o mem16(x[1], endian)
    ELSE mem16(x[1], endian) \o mem16(x[2], endian)

\* The bytes memcpy takes from &pkt->primary, &pkt->secondary and pkt->data.
tm_memory(pkt, endian) ==
    mem16(pkt.primary.packet_id, endian) \o mem16(pkt.primary.sequence_ctrl, endian)
    \o mem16(pkt.primary.packet_length, endian)
    \o mem32(pkt.secondary.coarse_time, endian) \o mem16(pkt.secondary.fine_time, endian)
    \o <<pkt.secondary.service_type, pkt.secondary.service_subtype,
         pkt.secondary.destination_id, pkt.secondary.spare>>
    \o pkt.data

ccsds_finalize_tm(pkt, endian) ==
    LET p == [pkt EXCEPT !.primary.packet_length =
                            (CCSDS_SEC_HDR_SIZE + pkt.data_length + 2 - 1) % 65536]
    IN  [p EXCEPT !.crc = ccsds_calc_crc(tm_memory(p, endian))]

ccsds_tm_get_total_length(pkt) ==
    CCSDS_PRIMARY_HDR_SIZE + CCSDS_SEC_HDR_SIZE + pkt.data_length + 2

\* The bytes written to buffer (empty when the function returns 0).
ccsds_serialize_tm(pkt, max_len) ==
    IF ccsds_tm_get_total_length(pkt) > max_len THEN <<>>
    ELSE <<pkt.primary.packet_id \div 256, pkt.primary.packet_id % 256,
           pkt.primary.sequence_ctrl \div 256, pkt.primary.sequence_ctrl % 256,
           pkt.primary.packet_length \div 256, pkt.primary.packet_length % 256,
           pkt.secondary.coarse_time[1] \div 256, pkt.secondary.coarse_time[1] % 256,
           pkt.secondary.coarse_time[2] \div 256, pkt.secondary.coarse_time[2] % 256,
           pkt.secondary.fine_time \div 256, pkt.secondary.fine_time % 256,
           pkt.secondary.service_type, pkt.secondary.service_subtype,
           pkt.secondary.destination_id, pkt.secondary.spare>>
         \o pkt.data
         \o <<pkt.crc \div 256, pkt.crc % 256>>

(***************************************************************************)
(* SpecCodec: packets are built, filled, finalized and serialized with     *)
(* inputs from small sets; svc_env keeps the packet under construction,    *)
(* whether it is finalized, and the bytes last written.                    *)
(***************************************************************************)
MaxCodecOps == 5
CodecEndian == {"little", "big"}
CodecApids  == {APID_SYSTEM, APID_MAX + 1}
CodecTimes  == {[seconds |-> u32(0), subseconds |-> 0],
                [seconds |-> <<4660, 22136>>, subseconds |-> 66050]}
CodecData   == {<<>>, <<1>>, <<0, 255>>}
CodecBuffer == {17, 64}

\* memset(pkt, 0, sizeof(*pkt))
ZeroTm ==
    [primary |-> [packet_id |-> 0, sequence_ctrl |-> 0, packet_length |-> 0],
     secondary |-> [coarse_time |-> u32(0), fine_time |-> 0, service_type |-> 0,
                    service_subtype |-> 0, destination_id |-> 0, spare |-> 0],
     data |-> <<>>, crc |-> 0, data_length |-> 0]

InitCodec ==
    /\ g_ccsds = ccsds_zero
    /\ \E endian \in CodecEndian :
          svc_env = [endian |-> endian, ops |-> 0, finalized |-> FALSE,
                     pkt |-> ZeroTm,
                     buffer |-> <<>>, last |-> "init"]
    /\ g_sched = <<>> /\ g_log = <<>>
    /\ IdleMode /\ IdleConc /\ IdleTc /\ IdleBoot /\ IdleFdir

CodecBuild(apid, service_type, service_subtype, ts) ==
    /\ svc_env.ops < MaxCodecOps
    /\ LET r == ccsds_build_tm_header(g_ccsds, apid, service_type, service_subtype, ts)
       IN  /\ g_ccsds' = r.g
           /\ svc_env' = [svc_env EXCEPT !.ops = @ + 1, !.pkt = r.pkt,
                                         !.finalized = FALSE, !.last = "build"]
    /\ UNCHANGED notSeq

CodecSetData(data) ==
    /\ svc_env.ops < MaxCodecOps
    /\ svc_env.last # "init"
    /\ svc_env' = [svc_env EXCEPT !.ops = @ + 1,
                                  !.pkt = ccsds_tm_set_data(svc_env.pkt, data).pkt,
                                  !.finalized = FALSE, !.last = "set_data"]
    /\ UNCHANGED <<g_ccsds, notSeq>>

CodecFinalize ==
    /\ svc_env.ops < MaxCodecOps
    /\ svc_env.last # "init"
    /\ svc_env' = [svc_env EXCEPT !.ops = @ + 1,
                                  !.pkt = ccsds_finalize_tm(svc_env.pkt, svc_env.endian),
                                  !.finalized = TRUE, !.last = "finalize"]
    /\ UNCHANGED <<g_ccsds, notSeq>>

CodecSerialize(max_len) ==
    /\ svc_env.ops < MaxCodecOps
    /\ svc_env.last # "init"
    /\ svc_env' = [svc_env EXCEPT !.ops = @ + 1,
                                  !.buffer = ccsds_serialize_tm(svc_env.pkt, max_len),
                                  !.last = "serialize"]
    /\ UNCHANGED <<g_ccsds, notSeq>>

NextCodec ==
    \/ \E apid \in CodecApids, svc \in {<<3, 25>>, <<17, 2>>}, ts \in CodecTimes :
          CodecBuild(apid, svc[1], svc[2], ts)
    \/ \E data \in CodecData : CodecSetData(data)
    \/ CodecFinalize
    \/ \E max_len \in CodecBuffer : CodecSerialize(max_len)

SpecCodec == InitCodec /\ [][NextCodec]_vars

\* Big-endian readers of a byte sequence.
be16(b, i) == b[i] * 256 + b[i + 1]

\* CRC-16-CCITT by polynomial division: initial 0xFFFF, polynomial 0x1021,
\* most significant bit first.
RECURSIVE crc16_bits(_, _)
crc16_bits(crc, n) ==
    IF n = 0 \/ crc \notin 0 .. 65535 THEN crc
    ELSE crc16_bits(IF crc >= 32768 THEN xor_bits((crc * 2) % 65536, 4129, 16)
                    ELSE crc * 2, n - 1)
RECURSIVE crc16_ccitt(_, _, _)
crc16_ccitt(crc, b, i) ==
    IF i > Len(b) \/ crc \notin 0 .. 65535 THEN crc
    ELSE crc16_ccitt(crc16_bits(xor_bits(crc, b[i] * 256, 16), 8), b, i + 1)

\* C26: the bytes written by ccsds_serialize_tm for a finalized packet read
\* back, as big-endian fields, to the packet's header fields and data with
\* packet_length = 10 + data_length + 2 - 1, and their last two bytes are the
\* CRC-16-CCITT of all bytes before them.
C26_RoundTrip ==
    (svc_env.last = "serialize" /\ svc_env.finalized /\ svc_env.buffer # <<>>) =>
        LET b == svc_env.buffer
            p == svc_env.pkt
            n == Len(b)
        IN  /\ n = 18 + p.data_length
            /\ be16(b, 1) = p.primary.packet_id
            /\ be16(b, 3) = p.primary.sequence_ctrl
            /\ be16(b, 5) = 10 + p.data_length + 2 - 1
            /\ <<be16(b, 7), be16(b, 9)>> = p.secondary.coarse_time
            /\ be16(b, 11) = p.secondary.fine_time
            /\ <<b[13], b[14], b[15], b[16]>> =
                  <<p.secondary.service_type, p.secondary.service_subtype,
                    p.secondary.destination_id, p.secondary.spare>>
            /\ SubSeq(b, 17, n - 2) = p.data
            /\ be16(b, n - 1) = crc16_ccitt(65535, SubSeq(b, 1, n - 2), 1)


(***************************************************************************)
(* ccsds_parse_tc (ccsds.c 244-289).  raw is the caller's byte sequence of *)
(* len bytes; C index k is raw[k + 1].  A read at an index >= len is       *)
(* outside the input: what it yields is not defined by the program, so the *)
(* call takes it as the parameter oob: a byte value, or OobFault when the  *)
(* access traps.                                                           *)
(***************************************************************************)
OPENFSW_FAULT == "FAULT"
OobFault == -1

ZeroTc ==
    [primary |-> [packet_id |-> 0, sequence_ctrl |-> 0, packet_length |-> 0],
     secondary |-> [service_type |-> 0, service_subtype |-> 0, source_id |-> 0,
                    spare |-> 0, scheduled_time |-> u32(0), ack_flags |-> 0],
     data |-> <<>>, crc |-> 0, data_length |-> 0]

\* raw[k] as the function reads it.
raw_at(raw, k, oob) == IF k < Len(raw) THEN raw[k + 1] ELSE oob
raw16(raw, k, oob) == raw_at(raw, k, oob) * 256 + raw_at(raw, k + 1, oob)

\* status, the packet written, and read_end: one more than the highest index
\* of raw that was read (0 when nothing was read).
ccsds_parse_tc(raw, oob) ==
    IF Len(raw) < CCSDS_PRIMARY_HDR_SIZE + CCSDS_SEC_HDR_SIZE + 2
    THEN [status |-> OPENFSW_ERROR_INVALID_PARAM, pkt |-> ZeroTc, read_end |-> 0]
    ELSE LET packet_length == raw16(raw, 4, oob)
             hdr == [ZeroTc EXCEPT
                       !.primary = [packet_id |-> raw16(raw, 0, oob),
                                    sequence_ctrl |-> raw16(raw, 2, oob),
                                    packet_length |-> packet_length],
                       !.secondary = [service_type |-> raw_at(raw, 6, oob),
                                      service_subtype |-> raw_at(raw, 7, oob),
                                      source_id |-> raw_at(raw, 8, oob),
                                      spare |-> raw_at(raw, 9, oob),
                                      scheduled_time |-> <<raw16(raw, 10, oob),
                                                           raw16(raw, 12, oob)>>,
                                      ack_flags |-> raw16(raw, 14, oob)]]
             data_len == (packet_length + 1 + 65536 - CCSDS_SEC_HDR_SIZE - 2) % 65536
             offset == CCSDS_PRIMARY_HDR_SIZE + CCSDS_SEC_HDR_SIZE
         IN  IF data_len > CCSDS_MAX_DATA
             THEN [status |-> OPENFSW_ERROR_OVERFLOW, pkt |-> hdr, read_end |-> offset]
             ELSE IF offset + data_len + 2 > Len(raw) /\ oob = OobFault
             THEN [status |-> OPENFSW_FAULT, pkt |-> hdr,
                   read_end |-> Len(raw) + 1]
             ELSE [status |-> OPENFSW_OK,
                   pkt |-> [hdr EXCEPT
                              !.data = [k \in 1 .. data_len |->
                                           raw_at(raw, offset + k - 1, oob)],
                              !.data_length = data_len,
                              !.crc = raw16(raw, offset + data_len, oob)],
                   read_end |-> offset + data_len + 2]

(***************************************************************************)
(* SpecParse: ccsds_parse_tc applied to inputs drawn from small sets: a    *)
(* header with a chosen packet_length field followed by 0..MaxTail bytes,  *)
(* or a short input.                                                       *)
(***************************************************************************)
MaxTail == 4
ParseLengths == {0, 10, 11, 12, 13, 14, 4090, 65535}
ParseOob == {0, 255, OobFault}

TcRaw(packet_length, service_type, tail) ==
    <<24, 1, 192, 0, packet_length \div 256, packet_length % 256,
      service_type, 1, 0, 0, 0, 0, 0, 0, 0, 0>> \o tail

ParseTails == {[k \in 1 .. n |-> (37 * k) % 256] : n \in 0 .. MaxTail}

InitParse ==
    /\ svc_env = [raw |-> <<>>, oob |-> 0, status |-> OPENFSW_OK, pkt |-> ZeroTc,
                  read_end |-> 0, last |-> "init"]
    /\ g_sched = <<>> /\ g_ccsds = <<>> /\ g_log = <<>>
    /\ IdleMode /\ IdleConc /\ IdleTc /\ IdleBoot /\ IdleFdir

ParseTc(raw, oob) ==
    /\ LET r == ccsds_parse_tc(raw, oob)
       IN  svc_env' = [raw |-> raw, oob |-> oob, status |-> r.status, pkt |-> r.pkt,
                       read_end |-> r.read_end, last |-> "parse"]
    /\ UNCHANGED <<modeVars, concVars, tcVars, bootVars, fdirVars,
                   g_sched, g_ccsds, g_log>>

NextParse ==
    \E packet_length \in ParseLengths, service_type \in {17, 8},
       tail \in ParseTails, cut \in {0, 3}, oob \in ParseOob :
          ParseTc(SubSeq(TcRaw(packet_length, service_type, tail), 1,
                         Len(TcRaw(packet_length, service_type, tail)) - cut), oob)

SpecParse == InitParse /\ [][NextParse]_vars

\* C27: when the data length derived from the packet_length field
\* (packet_length + 1 - 10 - 2 as a uint16_t) exceeds the data bytes present
\* in the len-byte input, ccsds_parse_tc returns an error; and it never reads
\* raw at an index >= len.
C27_ParseBounds ==
    svc_env.last = "parse" =>
        LET len == Len(svc_env.raw)
            derived == (svc_env.raw[5] * 256 + svc_env.raw[6] + 1 + 65536 - 10 - 2) % 65536
        IN  /\ (len >= 18 /\ derived > len - 18) =>
                  svc_env.status \notin {OPENFSW_OK, OPENFSW_FAULT}
            /\ svc_env.read_end <= len


(***************************************************************************)
(* Event log (flight/core/logging/event_log.c).  entries[i + 1] is the C   *)
(* array's entries[i]; a message is the sequence of its characters before  *)
(* the terminating NUL, NullMessage the null pointer.                      *)
(***************************************************************************)
EVENT_LOG_SIZE        == 256
EVENT_LOG_MSG_MAX_LEN == 32
EVENT_INFO            == "EVENT_INFO"

NullMessage == <<-1>>
NullEntry   == [timestamp_ms |-> -1, severity |-> "NULL", subsystem |-> -1,
                event_id |-> -1, message |-> <<>>]
ZeroLogEntry == [timestamp_ms |-> 0, severity |-> "EVENT_DEBUG", subsystem |-> 0,
                 event_id |-> 0, message |-> <<>>]

\* safe_strcpy(dst, src, max_len): at most max_len - 1 characters.
safe_strcpy(src, max_len) ==
    IF Len(src) > max_len - 1 THEN SubSeq(src, 1, max_len - 1) ELSE src

event_log_init ==
    [entries |-> [i \in 1 .. EVENT_LOG_SIZE |-> ZeroLogEntry],
     write_index |-> 0, count |-> 0, initialized |-> TRUE]

\* The entry event_log_write stores.
LogEntry(now, severity, subsys, event_id, message) ==
    [timestamp_ms |-> now, severity |-> severity, subsystem |-> subsys,
     event_id |-> event_id,
     message |-> IF message = NullMessage THEN <<>>
                 ELSE safe_strcpy(message, EVENT_LOG_MSG_MAX_LEN)]

event_log_write(g, now, severity, subsys, event_id, message) ==
    IF ~g.initialized THEN g
    ELSE [g EXCEPT
            !.entries[g.write_index + 1] =
                LogEntry(now, severity, subsys, event_id, message),
            !.write_index = (g.write_index + 1) % EVENT_LOG_SIZE,
            !.count = IF g.count < EVENT_LOG_SIZE THEN g.count + 1 ELSE g.count]

event_log_get_count(g) == g.count

\* event_log_get_entry variant without the circular offset.
event_log_get_entry_Linear(g, index) ==
    IF index >= g.count THEN NullEntry ELSE g.entries[index + 1]

\* The entry pointed to by the result, NullEntry for NULL.
event_log_get_entry(g, index) ==
    IF index >= g.count THEN NullEntry
    ELSE IF g.count < EVENT_LOG_SIZE THEN g.entries[index + 1]
    ELSE g.entries[((g.write_index + index) % EVENT_LOG_SIZE) + 1]

(***************************************************************************)
(* SpecLog: event_log_write, event_log_get_count and event_log_get_entry   *)
(* calls on an initialised log.  The log starts empty or after LogStarts   *)
(* earlier writes (write number w at time w with event_id w); svc_env      *)
(* keeps every entry written so far, in order, and the last read's result. *)
(***************************************************************************)
MaxLogOps == 4
LogStarts == {0, 254, 300}
\* Arguments of the write calls: <<dt, severity, event_id, message>>.
LogInputs == {<<1, EVENT_INFO, 0, NullMessage>>,
              <<1, EVENT_ERROR, 9, <<79, 75>>>>,
              <<0, EVENT_ERROR, 9, [k \in 1 .. 40 |-> 65 + (k % 26)]>>}

EarlierEntry(w) == LogEntry(w, EVENT_INFO, SUBSYS_FDIR, w, <<69>>)

\* g_log after writes 1 .. n of EarlierEntry.
LogAfter(n) ==
    [entries |-> [i \in 1 .. EVENT_LOG_SIZE |->
                     IF i > n THEN ZeroLogEntry
                     ELSE EarlierEntry(CHOOSE w \in (n - EVENT_LOG_SIZE + 1) .. n :
                                          w >= 1 /\ (w - 1) % EVENT_LOG_SIZE = i - 1)],
     write_index |-> n % EVENT_LOG_SIZE,
     count |-> IF n < EVENT_LOG_SIZE THEN n ELSE EVENT_LOG_SIZE,
     initialized |-> TRUE]

InitLog ==
    /\ \E n \in LogStarts :
          /\ g_log = LogAfter(n)
          /\ svc_env = [written |-> [w \in 1 .. n |-> EarlierEntry(w)],
                        now |-> n, ops |-> 0,
                        last |-> [op |-> "init", index |-> 0, result |-> NullEntry,
                                  count |-> 0]]
    /\ g_sched = <<>> /\ g_ccsds = <<>>
    /\ IdleMode /\ IdleConc /\ IdleTc /\ IdleBoot /\ IdleFdir

notLog == <<modeVars, concVars, tcVars, bootVars, fdirVars, g_sched, g_ccsds>>

\* dt: the time osal_get_time_ms has advanced since the previous write.
LogWrite(dt, severity, subsys, event_id, message) ==
    /\ svc_env.ops < MaxLogOps
    /\ g_log' = event_log_write(g_log, svc_env.now + dt, severity, subsys,
                                event_id, message)
    /\ svc_env' = [svc_env EXCEPT
          !.ops = @ + 1,
          !.now = @ + dt,
          !.written = Append(@, LogEntry(svc_env.now + dt, severity, subsys,
                                          event_id, message)),
          !.last = [op |-> "write", index |-> 0, result |-> NullEntry, count |-> 0]]
    /\ UNCHANGED notLog

LogGetEntry(index) ==
    /\ svc_env.ops < MaxLogOps
    /\ svc_env' = [svc_env EXCEPT
          !.ops = @ + 1,
          !.last = [op |-> "get_entry", index |-> index,
                    result |-> event_log_get_entry(g_log, index), count |-> 0]]
    /\ UNCHANGED <<g_log, notLog>>

LogGetCount ==
    /\ svc_env.ops < MaxLogOps
    /\ svc_env' = [svc_env EXCEPT
          !.ops = @ + 1,
          !.last = [op |-> "get_count", index |-> 0, result |-> NullEntry,
                    count |-> event_log_get_count(g_log)]]
    /\ UNCHANGED <<g_log, notLog>>

NextLog ==
    \/ \E in \in LogInputs : LogWrite(in[1], in[2], SUBSYS_FDIR, in[3], in[4])
    \/ \E index \in {0, 1, EVENT_LOG_SIZE - 1, EVENT_LOG_SIZE} : LogGetEntry(index)
    \/ LogGetCount

SpecLog == InitLog /\ [][NextLog]_vars

\* min(M, C) for the M entries written so far.
Retained == IF Len(svc_env.written) < EVENT_LOG_SIZE THEN Len(svc_env.written)
            ELSE EVENT_LOG_SIZE

\* C28: after M event_log_write calls on an initialised log, event_log_get_count
\* returns min(M, 256) and event_log_get_entry(i), for i in [0, min(M, 256)),
\* is the entry written by write number M - min(M, 256) + i + 1: the last
\* min(M, 256) entries, oldest first.
C28_LastEntriesInOrder ==
    /\ event_log_get_count(g_log) = Retained
    /\ \A i \in 0 .. (Retained - 1) :
          event_log_get_entry(g_log, i) =
              svc_env.written[Len(svc_env.written) - Retained + i + 1]
    /\ svc_env.last.op = "get_count" => svc_env.last.count = Retained
    /\ (svc_env.last.op = "get_entry" /\ svc_env.last.index < Retained) =>
          svc_env.last.result =
              svc_env.written[Len(svc_env.written) - Retained + svc_env.last.index + 1]

\* The log has wrapped: more than 256 entries written, the newest by a write
\* of this run, and an entry read back at the highest index.
C28_Witness ==
    /\ Len(svc_env.written) > EVENT_LOG_SIZE
    /\ svc_env.ops >= 2
    /\ g_log.write_index # 0
    /\ svc_env.last.op = "get_entry"
    /\ svc_env.last.index = EVENT_LOG_SIZE - 1
    /\ svc_env.last.result = svc_env.written[Len(svc_env.written)]
    /\ svc_env.last.result.event_id = 9


(***************************************************************************)
(* Locks taken under the command mutex.  telecommand_send_ack calls        *)
(* ccsds_build_tm_header, whose ccsds_next_sequence locks g_ccsds.mutex    *)
(* (ccsds.c 86), and telemetry_queue_packet, which locks g_telemetry.mutex *)
(* (telemetry.c 253); tc_handler_mode_change calls mode_manager_request,   *)
(* which locks g_mode_mutex; the housekeeping handlers call                *)
(* telemetry_enable / telemetry_disable, which lock g_telemetry.mutex.     *)
(***************************************************************************)
locks_attempted(call) ==
    CASE call = "telecommand_send_ack" -> {"g_ccsds.mutex", "g_telemetry.mutex"}
      [] call = "tc_handler_mode_change" -> {"g_mode_mutex"}
      [] call \in {"tc_handler_enable_hk", "tc_handler_disable_hk"} ->
            {"g_telemetry.mutex"}
      [] OTHER -> {}

\* C29 (dispatcher): every call telecommand_process makes that tries to take
\* another component's mutex is made with the command mutex released.
C29_NoNestedLocking ==
    [][(ret'.op = "tc" /\ TcProcess(ret'.pkt)) =>
          \A i \in 1 .. Len(ret'.calls) :
             locks_attempted(ret'.calls[i].call) # {} => MutexReleasedAt(ret', i)]_vars


\* What osal_mutex_lock(mutex, OSAL_WAIT_FOREVER) returns once it returns:
\* InvalidParam for the null handle, Ok after taking the semaphore.
osal_mutex_lock_status(mutex) ==
    IF mutex = NullMutex THEN OPENFSW_ERROR_INVALID_PARAM ELSE OPENFSW_OK

\* C30 (ccsds_next_sequence): while the acquisition of g_ccsds.mutex does not
\* succeed, no sequence counter changes.
C30_FailedLockNoEffect ==
    [][osal_mutex_lock_status(g_ccsds.mutex) # OPENFSW_OK =>
          g_ccsds'.sequence_counts = g_ccsds.sequence_counts]_vars


\* C31: a boot that finds a valid record increments boot_count by one unless it
\* already holds 0xFFFFFFFF, in which case it keeps that value; boot_count
\* never decreases and never wraps to zero.
C31_BootCountSaturates ==
    [][(/\ boot'.phase = "handoff" /\ BootMain(boot'.strap, boot'.cause)
        /\ boot_validate_persistent(g_boot_data)) =>
          g_boot_data'.boot_count =
              IF g_boot_data.boot_count = <<65535, 65535>> THEN <<65535, 65535>>
              ELSE u32_inc(g_boot_data.boot_count)]_vars


\* The used slots that are due once now_ms has advanced by elapsed_ms.
DueSlots(g, elapsed_ms) ==
    {i \in 1 .. OPENFSW_SCHED_MAX_JOBS :
        /\ g.jobs[i].used
        /\ u32_geq(u32_add(g.now_ms, elapsed_ms), g.jobs[i].next_run_ms)}

\* C32: one scheduler_step call invokes exactly the used jobs whose next_run_ms
\* is <= the advanced now_ms, each once, in ascending slot order, and moves
\* each invoked job's next_run_ms forward by exactly its period; other jobs
\* are left alone, so a job several periods late runs once per call.
C32_OncePerStep ==
    [][\A e \in SchedElapsed :
          (svc_env'.last = "step" /\ SchedStep(e)
           /\ g_sched'.now_ms = u32_add(g_sched.now_ms, e)) =>
             LET calls == svc_env'.calls
             IN  /\ {calls[k] : k \in 1 .. Len(calls)} = DueSlots(g_sched, e)
                 /\ \A k \in 1 .. (Len(calls) - 1) : calls[k] < calls[k + 1]
                 /\ \A i \in 1 .. OPENFSW_SCHED_MAX_JOBS :
                       g_sched'.jobs[i] =
                           IF i \in DueSlots(g_sched, e)
                           THEN [g_sched.jobs[i] EXCEPT !.next_run_ms =
                                    u32_add(@, g_sched.jobs[i].period_ms)]
                           ELSE g_sched.jobs[i]]_vars

\* Two jobs ran in one call, in slot order, and the second is still more than
\* a period behind the clock after its single invocation.
C32_Witness ==
    /\ svc_env.last = "step"
    /\ Len(svc_env.calls) >= 2
    /\ svc_env.calls[1] = 1
    /\ \E i \in 2 .. OPENFSW_SCHED_MAX_JOBS :
          /\ svc_env.calls[2] = i
          /\ g_sched.jobs[i].period_ms = 20
          /\ u32_geq(g_sched.now_ms, u32_add(g_sched.jobs[i].next_run_ms, 20))


(***************************************************************************)
(* SpecStart: boot_main hands the selected mode to rtos_start, which calls *)
(* mode_manager_init; requests and process calls follow until a reset      *)
(***************************************************************************)
\* g_mode in .bss after startup has zeroed it, before mode_manager_init.
ZeroMode ==
    [current |-> 0, previous |-> 0, requested |-> 0, entry_time_s |-> 0,
     timeout_s |-> 0, transition_pending |-> FALSE, forced_override |-> FALSE]

\* Power-on: the .noinit record holds whatever the memory held.
InitStart ==
    /\ g_boot_data \in GarbageRecords
    /\ boot = BootOff
    /\ tick = 0
    /\ g_mode = ZeroMode
    /\ ret = [op |-> "reset", status |-> OPENFSW_OK, due |-> FALSE]
    /\ h_entry_tick = 0 /\ h_lastOk = MODE_BOOT /\ h_before = MODE_BOOT
    /\ h_moved = FALSE /\ h_clean = TRUE /\ h_ran = TRUE
    /\ IdleConc /\ IdleTc /\ IdleFdir /\ IdleSvc

\* boot_main up to and including rtos_start's mode_manager_init(mode).
StartBoot(pin, cause) ==
    /\ boot.phase = "reset"
    /\ boot.n < MaxBoots
    /\ LET r == boot_main(g_boot_data, pin, cause)
       IN  /\ g_boot_data' = r.data
           /\ boot' = [phase |-> "handoff", n |-> boot.n + 1, strap |-> pin,
                       cause |-> cause, mode |-> r.mode,
                       found |-> g_boot_data, checked |-> r.checked]
           /\ g_mode' = mode_manager_init(r.mode, get_system_time_s(tick))
    /\ ret' = [op |-> "init", status |-> OPENFSW_OK, due |-> FALSE]
    /\ UNCHANGED <<tick, h_entry_tick, h_lastOk, h_before, h_moved, h_clean, h_ran>>
    /\ UNCHANGED <<concVars, tcVars, fdirVars, svcVars>>

StartRequest(mode) ==
    /\ boot.phase = "handoff"
    /\ g_mode' = mode_manager_request(g_mode, mode)
    /\ ret' = [op |-> "request", status |-> request_status(g_mode, mode), due |-> FALSE]
    /\ UNCHANGED <<tick, h_entry_tick, h_lastOk, h_before, h_moved, h_clean, h_ran>>
    /\ UNCHANGED notMode

StartProcess ==
    /\ boot.phase = "handoff"
    /\ g_mode' = mode_manager_process(g_mode, get_system_time_s(tick))
    /\ ret' = [op |-> "process", status |-> OPENFSW_OK, due |-> FALSE]
    /\ UNCHANGED <<tick, h_entry_tick, h_lastOk, h_before, h_moved, h_clean, h_ran>>
    /\ UNCHANGED notMode

\* A reset that keeps the .noinit record; startup zeroes .bss again.
StartReset ==
    /\ boot.phase = "handoff"
    /\ boot' = [BootOff EXCEPT !.n = boot.n]
    /\ g_mode' = ZeroMode
    /\ ret' = [op |-> "reset", status |-> OPENFSW_OK, due |-> FALSE]
    /\ UNCHANGED <<tick, h_entry_tick, h_lastOk, h_before, h_moved, h_clean, h_ran>>
    /\ UNCHANGED <<g_boot_data, concVars, tcVars, fdirVars, svcVars>>

NextStart ==
    \/ \E pin \in BOOLEAN, cause \in ResetCauses : StartBoot(pin, cause)
    \/ \E mode \in ModeArgs : StartRequest(mode)
    \/ StartProcess
    \/ StartReset

SpecStart == InitStart /\ [][NextStart]_vars

\* C33: NOMINAL is never entered directly from BOOT: once the mode manager
\* is initialised, current = NOMINAL never coincides with previous = BOOT.
C33_NominalNotFromBoot ==
    boot.phase = "handoff" =>
        ~(g_mode.current = MODE_NOMINAL /\ g_mode.previous = MODE_BOOT)


\* C34: after any sequence of queue and dequeue calls from telemetry_init,
\* queue_count equals the number of valid slots and lies in 0..16; a dequeue
\* that returned NotFound found no valid slot and an enqueue that returned
\* Overflow found all 16 slots valid (neither call changes the slots).
C34_CountIsValidSlots ==
    /\ g_telemetry.queue_count = Cardinality(ValidSlots(g_telemetry))
    /\ g_telemetry.queue_count \in 0 .. TM_QUEUE_SIZE
    /\ (tm_env.last.op = "dequeue" /\ tm_env.last.status = OPENFSW_ERROR_NOT_FOUND) =>
          ValidSlots(g_telemetry) = {}
    /\ (tm_env.last.op = "enqueue" /\ tm_env.last.status = OPENFSW_ERROR_OVERFLOW) =>
          ValidSlots(g_telemetry) = TmSlots


\* C35: telemetry_queue_packet never removes from the queue (by discarding
\* or overwriting) a packet whose priority is greater than or equal to the
\* incoming priority, and removes none at all when the queue is not full, so
\* that a packet accepted with Ok stays queued until a dequeue returns it
\* unless a strictly higher-priority enqueue on a full queue preempts it.
C35_NoLossOnEnqueue ==
    [][(tm_env'.last.op = "enqueue" /\ TmEnqueue(tm_env'.last.priority)) =>
          \A i \in ValidSlots(g_telemetry) :
              g_telemetry.queue[i].packet \notin QueuedPackets(g_telemetry') =>
                 /\ g_telemetry.queue[i].priority < tm_env'.last.priority
                 /\ ValidSlots(g_telemetry) = TmSlots]_vars


\* C36: fdir_periodic never tries to take the non-recursive FDIR mutex while
\* it holds it, so the task that runs it is never blocked on a mutex it owns
\* and every call returns with the mutex released.
C36_PeriodicNoSelfLock ==
    ~(PeriodicTask \in fdir_env.blocked /\ g_fdir.mutex = PeriodicTask)


\* C37: a forced transition is never displaced by an ordinary request: while
\* a transition set by mode_manager_force is pending, mode_manager_request
\* leaves its target and its forced flag as they are, so that the next
\* mode_manager_process makes the forced mode current.
C37_ForceNotDisplaced ==
    [][(/\ ret'.op = "request" /\ \E mode \in ModeArgs : Request(mode)
        /\ g_mode.transition_pending /\ g_mode.forced_override) =>
          /\ g_mode'.requested = g_mode.requested
          /\ g_mode'.transition_pending
          /\ g_mode'.forced_override]_vars


(***************************************************************************)
(* SpecCrash: boot_main statement by statement, with a reset possible      *)
(* between any two statements (the .noinit record survives the reset)      *)
(***************************************************************************)
MaxCrashBoots == 3   \* bound: boot_main runs started in one behaviour
MaxPriorBoots == 3   \* bound: completed watchdog boots before the behaviour

\* The record after k complete boot_main runs with cause WATCHDOG and the
\* strap not asserted, starting from a freshly initialised record.
RECURSIVE BootedTimes(_)
BootedTimes(k) ==
    IF k = 0 THEN boot_init_persistent
    ELSE boot_main(BootedTimes(k - 1), FALSE, RESET_CAUSE_WATCHDOG).data

\* latched: the watchdog counter has reached BOOT_SAFE_THRESHOLD and
\* boot_clear_counters has not been called since.
InitCrash ==
    /\ \E k \in 0 .. MaxPriorBoots :
          /\ g_boot_data = BootedTimes(k)
          /\ boot = [phase |-> "reset", n |-> 0, strap |-> FALSE,
                     cause |-> RESET_CAUSE_UNKNOWN, mode |-> MODE_BOOT,
                     reinit |-> FALSE, latched |-> (k >= BOOT_SAFE_THRESHOLD)]
    /\ IdleMode /\ IdleConc /\ IdleTc /\ IdleFdir /\ IdleSvc

\* if (!boot_validate_persistent()) boot_init_persistent();
CrashValidate ==
    /\ boot.phase = "reset"
    /\ boot.n < MaxCrashBoots
    /\ g_boot_data' = IF ~boot_validate_persistent(g_boot_data)
                      THEN boot_init_persistent ELSE g_boot_data
    /\ boot' = [boot EXCEPT !.phase = "validated", !.n = @ + 1,
                            !.reinit = ~boot_validate_persistent(g_boot_data)]
    /\ UNCHANGED notBoot

\* cause = bsp_reset_get_cause(); g_boot_data.last_reset_cause = cause;
CrashSetCause(pin, cause) ==
    /\ boot.phase = "validated"
    /\ g_boot_data' = [g_boot_data EXCEPT !.last_reset_cause = cause]
    /\ boot' = [boot EXCEPT !.phase = "cause", !.strap = pin, !.cause = cause]
    /\ UNCHANGED notBoot

\* boot_increment_counter: g_boot_data.boot_count++;
CrashIncrement ==
    /\ boot.phase = "cause"
    /\ g_boot_data' = [g_boot_data EXCEPT !.boot_count = u32_inc(@)]
    /\ boot' = [boot EXCEPT !.phase = "incremented"]
    /\ UNCHANGED notBoot

\* boot_increment_counter: boot_update_persistent();
CrashChecksum ==
    /\ boot.phase = "incremented"
    /\ g_boot_data' = boot_update_persistent(g_boot_data)
    /\ boot' = [boot EXCEPT !.phase = "counted"]
    /\ UNCHANGED notBoot

\* mode = boot_select_mode(cause);
CrashSelect ==
    /\ boot.phase = "counted"
    /\ LET r == boot_select_mode(g_boot_data, boot.strap, boot.cause)
       IN  /\ g_boot_data' = r.data
           /\ boot' = [boot EXCEPT !.phase = "selected", !.mode = r.mode,
                          !.latched = @ \/ u32_ge(r.data.reset_count_watchdog,
                                                  BOOT_SAFE_THRESHOLD)]
    /\ UNCHANGED notBoot

\* boot_update_persistent(); rtos_start(mode);
CrashUpdate ==
    /\ boot.phase = "selected"
    /\ g_boot_data' = boot_update_persistent(g_boot_data)
    /\ boot' = [boot EXCEPT !.phase = "running"]
    /\ UNCHANGED notBoot

\* fdir_reset_loop_handled calls boot_clear_counters while the RTOS runs.
CrashClearCounters ==
    /\ boot.phase = "running"
    /\ g_boot_data.reset_count_watchdog # u32(0)
    /\ g_boot_data' = boot_clear_counters(g_boot_data)
    /\ boot' = [boot EXCEPT !.latched = FALSE]
    /\ UNCHANGED notBoot

\* A reset (watchdog, software, supply dip) at the current program point.
CrashReset ==
    /\ boot.phase # "reset"
    /\ boot' = [boot EXCEPT !.phase = "reset"]
    /\ UNCHANGED <<g_boot_data, notBoot>>

NextCrash ==
    \/ CrashValidate
    \/ \E pin \in BOOLEAN, cause \in ResetCauses : CrashSetCause(pin, cause)
    \/ CrashIncrement
    \/ CrashChecksum
    \/ CrashSelect
    \/ CrashUpdate
    \/ CrashClearCounters
    \/ CrashReset

SpecCrash == InitCrash /\ [][NextCrash]_vars

\* C40: a reset that interrupts boot_main after the record has been
\* validated or reinitialised leaves a record that passes the magic and
\* checksum validation of the next boot, so the next boot does not
\* reinitialise the counters.
C40_CrashConsistent ==
    [][(CrashReset /\ boot.phase # "running") =>
          boot_validate_persistent(g_boot_data')]_vars


\* C38: over sequences of boots from a freshly initialised record the
\* watchdog reset counter never exceeds 3, and once it has reached 3 every
\* boot that completes selects SAFE, for every reset cause and strap state,
\* and leaves the counter at 3, until boot_clear_counters is called.
C38_WatchdogLatch ==
    /\ ~u32_ge(g_boot_data.reset_count_watchdog, BOOT_SAFE_THRESHOLD + 1)
    /\ (boot.phase = "running" /\ boot.latched) =>
          /\ boot.mode = MODE_SAFE
          /\ g_boot_data.reset_count_watchdog = u32(BOOT_SAFE_THRESHOLD)


\* C39: the scheduler task, which runs telemetry_periodic as one of its
\* periodic jobs, is never blocked inside a job on a mutex it already holds,
\* so every scheduler_step call returns and the watchdog kick that follows it
\* in the task loop is reached on every 10 ms tick.
C39_DriverNeverBlocked ==
    ~(tm_env.blocked /\ tm_env.mutex = HkTask)

====
